---- MODULE Spec2Model ----
(***************************************************************************)
(* Model of cryptoinvest.  The first part is the backtest simulator        *)
(* (src/src/cryptoinvest/backtest.py): simulate_trades, _is_valid_order,   *)
(* _trade_pnl and compute_metrics.  The later parts are add_levels         *)
(* (levels.py), signal_from_row (signals.py), the signal worker with its   *)
(* snapshot (worker.py, snapshot.py), the snapshot stores (store.py), the  *)
(* read API (service.py) and the indicator functions (indicators.py);      *)
(* each has its own variables and its own specification, and leaves the    *)
(* variables of the others alone.  compute_metrics is also called on trade *)
(* lists of its own, apart from a simulation.                              *)
(*                                                                         *)
(* Prices and timestamps are small integers.  Floating-point results       *)
(* (pnl, the metrics) are exact rationals [num, den] in lowest terms, so   *)
(* rounding is not modelled.  A frame is its header (columns, index type,  *)
(* index); simulate_trades reads every cell of the frame at most once      *)
(* (high/low while a trade is open, the signal columns while idle, close   *)
(* of the last row after the loop), so a cell's value is drawn when the    *)
(* code reads it, or taken from the reference fixture of the test.         *)
(***************************************************************************)
EXTENDS Integers, Sequences, FiniteSets, TLC

\* ---- bounds of the model ----
MaxRows == 3
MaxPrice == 3

\* An optional value (None, or a NaN cell of the frame) is the empty sequence;
\* a present value v is <<v>>.
None == <<>>
Some(v) == <<v>>
Get(x) == x[1]

Prices == 1..MaxPrice
Timestamps == 1..MaxRows

\* ---- exact rational arithmetic standing for the code's floats ----
Abs(n) == IF n < 0 THEN -n ELSE n

RECURSIVE GCD(_, _)
GCD(a, b) == IF b = 0 THEN a ELSE GCD(b, a % b)

Rat(n, d) ==
    LET g == GCD(Abs(n), Abs(d))
        s == IF d < 0 THEN -1 ELSE 1
    IN [num |-> (s * n) \div g, den |-> (s * d) \div g]

Zero == Rat(0, 1)
One == Rat(1, 1)
RAdd(a, b) == Rat(a.num * b.den + b.num * a.den, a.den * b.den)
RSub(a, b) == Rat(a.num * b.den - b.num * a.den, a.den * b.den)
RMul(a, b) == Rat(a.num * b.num, a.den * b.den)
RDiv(a, b) == Rat(a.num * b.den, a.den * b.num)
RLt(a, b) == a.num * b.den < b.num * a.den
RLe(a, b) == a.num * b.den <= b.num * a.den
RMin(a, b) == IF RLt(b, a) THEN b ELSE a
RMax(a, b) == IF RLt(a, b) THEN b ELSE a

\* ---- inputs ----
\* fee_rate values a run is called with: 0 (the default) and 1/8.
Fees == {Rat(0, 1), Rat(1, 8)}

REQUIRED == {"high", "low", "close", "action", "entry", "stop_loss", "target"}

\* Column sets of the frames given to simulate_trades: complete, or lacking one.
ColumnSets == {REQUIRED} \cup {REQUIRED \ {c} : c \in REQUIRED}

IndexTypes == {"DatetimeIndex", "RangeIndex"}

\* Candles: the (high, low) of a row, low <= high as in exchange data.
Candles == {c \in [high : Prices, low : Prices] : c.low <= c.high}

\* A cell of the entry, stop_loss and target columns: NaN or a price.
Actions == {"long", "short", "wait"}
Cells == {None} \cup {Some(p) : p \in Prices}
notna(x) == x # None
\* Two cells are near when one is NaN or they are at most one price step apart.
Near(a, b) == a = None \/ b = None \/ Abs(Get(a) - Get(b)) <= 1

\* The signal columns of the rows the model draws: any action, cells NaN or a
\* price, stop and target within one price step of the entry, on either side
\* of it or on it.
Signals ==
    {s \in [action : Actions, entry : Cells, stop_loss : Cells, target : Cells] :
        Near(s.entry, s.stop_loss) /\ Near(s.entry, s.target)}

\* ---- pure functions of backtest.py ----
\* _is_valid_order with non-strict comparisons.
IsValidOrderLoose(action, entry, stop, target) ==
    IF action = "long" THEN stop <= entry /\ entry <= target
    ELSE IF action = "short" THEN target <= entry /\ entry <= stop
    ELSE FALSE

\* _is_valid_order with the long ordering applied to both sides.
IsValidOrderLongOnly(action, entry, stop, target) ==
    IF action \in {"long", "short"} THEN stop < entry /\ entry < target
    ELSE FALSE

_is_valid_order(action, entry, stop, target) ==
    IF action = "long" THEN stop < entry /\ entry < target
    ELSE IF action = "short" THEN target < entry /\ entry < stop
    ELSE FALSE

\* _trade_pnl with the gross return of a long trade for either side.
TradePnlAsLong(side, entry, exit_price, fee) ==
    RSub(Rat(exit_price - entry, entry), RMul(Rat(2, 1), fee))

\* _trade_pnl with the fee charged once.
TradePnlOneFee(side, entry, exit_price, fee) ==
    LET gross == IF side = "long"
                 THEN Rat(exit_price - entry, entry)
                 ELSE Rat(entry - exit_price, entry)
    IN RSub(gross, fee)

_trade_pnl(side, entry, exit_price, fee) ==
    LET gross == IF side = "long"
                 THEN Rat(exit_price - entry, entry)
                 ELSE Rat(entry - exit_price, entry)
    IN RSub(gross, RMul(Rat(2, 1), fee))

Outcome(pnl) ==
    IF RLt(Zero, pnl) THEN "win" ELSE IF RLt(pnl, Zero) THEN "loss" ELSE "flat"

\* ---- compute_metrics ----
\* Float division of pandas: x/0 is NaN for x = 0 and -inf for x < 0 (an equity
\* never exceeds its running peak, so +inf does not occur).
NaN == [num |-> 0, den |-> 0]
NegInf == [num |-> -1, den |-> 0]

FDiv(a, b) ==
    IF b.num = 0 THEN (IF a.num = 0 THEN NaN ELSE NegInf)
    ELSE RDiv(a, b)

\* x - 1.0 on a float that may be NaN or -inf.
FSubOne(x) == IF x \in {NaN, NegInf} THEN x ELSE RSub(x, One)

\* min of two floats as Series.min() folds them: NaN is skipped.
FMin(a, b) ==
    IF a = NaN THEN b
    ELSE IF b = NaN THEN a
    ELSE IF a = NegInf \/ b = NegInf THEN NegInf
    ELSE RMin(a, b)

RECURSIVE SeqSum(_)
SeqSum(s) == IF s = <<>> THEN Zero ELSE RAdd(Head(s), SeqSum(Tail(s)))

\* Series.mean() of a non-empty series.
Mean(s) == RDiv(SeqSum(s), Rat(Len(s), 1))

\* Series.cumprod(): out[k] = out[k-1] * s[k].
RECURSIVE CumProd(_)
CumProd(s) ==
    IF Len(s) <= 1 THEN s
    ELSE LET init == CumProd(SubSeq(s, 1, Len(s) - 1))
         IN Append(init, RMul(init[Len(init)], s[Len(s)]))

\* Series.cummax(): out[k] = max(out[k-1], s[k]).
RECURSIVE CumMax(_)
CumMax(s) ==
    IF Len(s) <= 1 THEN s
    ELSE LET init == CumMax(SubSeq(s, 1, Len(s) - 1))
         IN Append(init, RMax(init[Len(init)], s[Len(s)]))

\* Series.min(), NaN skipped; NaN when every element is NaN.
RECURSIVE SeqFMin(_)
SeqFMin(s) == IF s = <<>> THEN NaN ELSE FMin(Head(s), SeqFMin(Tail(s)))

IsWin(x) == RLt(Zero, x)
IsLoss(x) == RLt(x, Zero)

\* compute_metrics with the starting equity of 1 counted as the first peak.
ComputeMetricsPeakFromOne(trades) ==
    IF trades = <<>>
    THEN [win_rate |-> Zero, avg_pl |-> Zero, avg_win |-> Zero, avg_loss |-> Zero,
          max_drawdown |-> Zero, trades_count |-> 0]
    ELSE LET pnl == [k \in 1..Len(trades) |-> trades[k].pnl]
             wins == SelectSeq(pnl, IsWin)
             losses == SelectSeq(pnl, IsLoss)
             equity_curve == CumProd([k \in 1..Len(pnl) |-> RAdd(One, pnl[k])])
             peaks == Tail(CumMax(<<One>> \o equity_curve))
             drawdowns == [k \in 1..Len(pnl) |->
                              FSubOne(FDiv(equity_curve[k], peaks[k]))]
             flags == [k \in 1..Len(pnl) |-> IF IsWin(pnl[k]) THEN One ELSE Zero]
         IN [win_rate |-> RMul(Mean(flags), Rat(100, 1)),
             avg_pl |-> Mean(pnl),
             avg_win |-> IF wins # <<>> THEN Mean(wins) ELSE Zero,
             avg_loss |-> IF losses # <<>> THEN Mean(losses) ELSE Zero,
             max_drawdown |-> SeqFMin(drawdowns),
             trades_count |-> Len(trades)]

compute_metrics(trades) ==
    IF trades = <<>>
    THEN [win_rate |-> Zero, avg_pl |-> Zero, avg_win |-> Zero, avg_loss |-> Zero,
          max_drawdown |-> Zero, trades_count |-> 0]
    ELSE LET pnl == [k \in 1..Len(trades) |-> trades[k].pnl]
             wins == SelectSeq(pnl, IsWin)
             losses == SelectSeq(pnl, IsLoss)
             equity_curve == CumProd([k \in 1..Len(pnl) |-> RAdd(One, pnl[k])])
             peaks == CumMax(equity_curve)
             drawdowns == [k \in 1..Len(pnl) |->
                              FSubOne(FDiv(equity_curve[k], peaks[k]))]
             flags == [k \in 1..Len(pnl) |-> IF IsWin(pnl[k]) THEN One ELSE Zero]
         IN [win_rate |-> RMul(Mean(flags), Rat(100, 1)),
             avg_pl |-> Mean(pnl),
             avg_win |-> IF wins # <<>> THEN Mean(wins) ELSE Zero,
             avg_loss |-> IF losses # <<>> THEN Mean(losses) ELSE Zero,
             max_drawdown |-> SeqFMin(drawdowns),
             trades_count |-> Len(trades)]

\* ---- simulate_trades ----
VARIABLES
    frame,          \* the caller's frame: [columns, index_type, index, cells]
    eval_start,     \* arguments of the call
    eval_end,
    fee_rate,
    data,           \* rows of the frame inside the window, as positions in the frame
    i,              \* position in data of the row the loop is at (0 before the loop)
    pending_order,  \* None or Some(order)
    open_trade,     \* None or Some(trade)
    trades,         \* closed trades, in the order they were appended
    high,           \* locals of the exit check, None until the row's cells are read
    low,
    final_close,    \* local of the end-of-data close, None until the cell is read
    result,         \* None until the call returns, then Some([trades, metrics])
    raised,         \* "" or the message of the ValueError that ended the call
    pc,
    earlier         \* None, or Some(what the caller's earlier call on the frame gave)

\* The variables of simulate_trades and of its caller.
backtest_vars == <<frame, eval_start, eval_end, fee_rate, data, i, pending_order,
                   open_trade, trades, high, low, final_close, result, raised, pc,
                   earlier>>

\* ---- add_levels (levels.py) ----
VARIABLES
    df,                 \* the caller's frame: [columns, rows], rows of high, low, close
    window,             \* the argument window
    out,                \* the local out: the rows with their pivot columns
    supports_seen,      \* the four lists of the loop
    resistances_seen,
    nearest_resistance,
    nearest_support,
    levels_raised,      \* "" or the message of the ValueError that ended the call
    levels_pc

levels_vars == <<df, window, out, supports_seen, resistances_seen, nearest_resistance,
                 nearest_support, levels_raised, levels_pc>>

\* ---- signal_from_row (signals.py) ----
VARIABLES
    signal_row,     \* the row given to signal_from_row: a raw value per field
    signal,         \* None, or Some(the dict the last call returned)
    signal_raised,  \* "" or the exception that ended the last call
    signal_calls,   \* calls the caller has made so far
    first_signal,   \* None, or Some(the row and the result of the caller's first call)
    signal_pc

signal_vars == <<signal_row, signal, signal_raised, signal_calls, first_signal, signal_pc>>

\* ---- SignalWorker.run_once (worker.py) and its snapshot store ----
VARIABLES
    store,          \* what the store holds: None or Some(snapshot)
    store_up,       \* whether the store's read and write succeed or raise
    clock,          \* the time now_fn gave to the latest cycle
    now_iso,        \* locals of run_once
    raw_candles,    \* None, or Some(raw.index), the times of the fetched candles
    closed_candles, \* None, or Some(closed.index), the times of the closed candles
    latest_signal,  \* None, or Some(the dict signal_fn returned)
    candle_time,    \* None, or Some(prepared.index[-1])
    exc,            \* "" or str(exc) of the exception the except clause caught
    failed_step,    \* "" or the step that raised it: fetch, compute or persist
    previous,       \* None, or Some(what store.read() returned in the handler)
    returned,       \* None, or Some(the snapshot run_once returned)
    worker_pc,
    computed_signals,   \* history: the signals that successful cycles have published
    cycle_history   \* history: [cycle, success]: the time and outcome of the latest
                    \* finished cycle, and the time, signal and candle_time of the
                    \* latest successful one (None while there is none)

worker_vars == <<store, store_up, clock, now_iso, raw_candles, closed_candles,
                 latest_signal, candle_time, exc, failed_step, previous, returned,
                 worker_pc, computed_signals, cycle_history>>

\* ---- CompositeSnapshotStore with its file and its Redis key (store.py) ----
VARIABLES
    redis_configured,   \* whether the composite store has a redis_store
    redis_up,           \* whether the Redis client answers or raises
    redis_data,         \* the value of the Redis key: None or Some(JSON text)
    file_data,          \* None while the file does not exist, else Some(its text)
    writer_pc,          \* the thread in CompositeSnapshotStore.write
    writing,            \* the snapshot it was given
    writes,             \* the calls of write so far
    last_written,       \* history: None, or Some(the snapshot of the last write
                        \* that returned)
    reader_pc,          \* the thread in CompositeSnapshotStore.read
    read_result,        \* None, or Some(the snapshot read returned)
    read_old            \* history: last_written when the read was called

store_vars == <<redis_configured, redis_up, redis_data, file_data, writer_pc, writing,
                writes, last_written, reader_pc, read_result, read_old>>

\* ---- GET /signal of the read API (service.py) ----
VARIABLES
    service_pc,     \* "idle", or "signal" while a request is handled
    response        \* None, or Some([status, body]) of the last answer

service_vars == <<service_pc, response>>

\* ---- normalize_snapshot (snapshot.py) ----
VARIABLES
    snapshot_arg,       \* the argument: [order, items] of a dict (None is the empty dict)
    normalized_once,    \* None, or Some(the dict of normalize_snapshot(snapshot_arg))
    normalized_again,   \* None, or Some(the dict of normalizing that dict)
    normalize_pc

normalize_vars == <<snapshot_arg, normalized_once, normalized_again, normalize_pc>>

\* ---- ema, macd, rsi, volume_ma (indicators.py) ----
VARIABLES
    ind_fn,             \* the function called: "ema", "macd", "rsi" or "volume_ma"
    ind_series,         \* the argument series (close or volume), a sequence of numbers
    ind_params,         \* the integer arguments: <<period>>, <<window>> or <<fast, slow, signal>>
    ind_result,         \* None, or Some(what the call returned)
    ind_raised,         \* "" or the message of the ValueError that ended the call
    ind_pc

indicator_vars == <<ind_fn, ind_series, ind_params, ind_result, ind_raised, ind_pc>>

\* ---- compute_metrics called on a trade list of its own (backtest.py) ----
VARIABLES
    metrics_trades,     \* the argument: a sequence of trades, of which only pnl is read
    metrics_result,     \* None, or Some(the dict compute_metrics returned)
    metrics_pc

metrics_vars == <<metrics_trades, metrics_result, metrics_pc>>

\* The variables of the other operations, which a call of simulate_trades
\* leaves alone.
outside == <<levels_vars, signal_vars, worker_vars, store_vars, service_vars,
             normalize_vars, indicator_vars, metrics_vars>>

\* The variables a call of add_levels leaves alone.
outside_levels == <<backtest_vars, signal_vars, worker_vars, store_vars, service_vars,
                    normalize_vars, indicator_vars, metrics_vars>>

\* The variables a call of signal_from_row leaves alone.
outside_signal == <<backtest_vars, levels_vars, worker_vars, store_vars, service_vars,
                    normalize_vars, indicator_vars, metrics_vars>>

\* The variables a cycle of the worker leaves alone.
outside_worker == <<backtest_vars, levels_vars, signal_vars, store_vars, service_vars,
                    normalize_vars, indicator_vars, metrics_vars>>

\* The variables the operations of the composite store leave alone.
outside_store == <<backtest_vars, levels_vars, signal_vars, worker_vars, service_vars,
                   normalize_vars, indicator_vars, metrics_vars>>

\* The variables a request to the read API leaves alone.
outside_service == <<backtest_vars, levels_vars, signal_vars, store_vars,
                     normalize_vars, indicator_vars, metrics_vars>>

\* The variables a call of normalize_snapshot leaves alone.
outside_normalize == <<backtest_vars, levels_vars, signal_vars, worker_vars,
                       store_vars, service_vars, indicator_vars, metrics_vars>>

\* The variables a call of an indicator function leaves alone.
outside_indicators == <<backtest_vars, levels_vars, signal_vars, worker_vars,
                        store_vars, service_vars, normalize_vars, metrics_vars>>

\* The variables a call of compute_metrics on a list of its own leaves alone.
outside_metrics == <<backtest_vars, levels_vars, signal_vars, worker_vars, store_vars,
                     service_vars, normalize_vars, indicator_vars>>

vars == <<backtest_vars, outside>>

args == <<frame, eval_start, eval_end, fee_rate>>

\* Timestamp of the row the loop is at (the loop variable ts).
ts == frame.index[data[i]]

\* Frames the model calls simulate_trades with: of 0..MaxRows rows, the index
\* 1..n in chronological order or reversed (the call does not sort the frame).
Ascending(n) == [k \in 1..n |-> k]
Descending(n) == [k \in 1..n |-> n + 1 - k]
Indexes == {Ascending(n) : n \in 0..MaxRows} \cup {Descending(n) : n \in 0..MaxRows}
Frames == [columns : ColumnSets, index_type : IndexTypes, index : Indexes,
           cells : {None}]

\* The frame of test_simulate_trades_metrics_are_deterministic
\* (tests/test_backtest.py lines 11-23), its five 4-hour timestamps as 1..5.
Wait == [action |-> "wait", entry |-> None, stop_loss |-> None, target |-> None]

FixtureRows ==
    << [high |-> 101, low |-> 99, close |-> 100,
        signal |-> [action |-> "long", entry |-> Some(100), stop_loss |-> Some(95),
                    target |-> Some(110)]],
       [high |-> 111, low |-> 99, close |-> 108, signal |-> Wait],
       [high |-> 102, low |-> 98, close |-> 100,
        signal |-> [action |-> "short", entry |-> Some(100), stop_loss |-> Some(105),
                    target |-> Some(90)]],
       [high |-> 106, low |-> 95, close |-> 104, signal |-> Wait],
       [high |-> 104, low |-> 100, close |-> 103, signal |-> Wait] >>

FixtureFrame ==
    [columns |-> REQUIRED, index_type |-> "DatetimeIndex",
     index |-> Ascending(Len(FixtureRows)), cells |-> Some(FixtureRows)]

\* Evaluation windows [eval_start, eval_end]: every timestamp, or all but the
\* first and the last.
Windows == {<<1, MaxRows>>, <<2, MaxRows - 1>>}

\* No call of add_levels is under way.
LevelsNotCalled ==
    /\ df = [columns |-> {}, rows |-> <<>>]
    /\ window = 0
    /\ out = <<>>
    /\ supports_seen = <<>>
    /\ resistances_seen = <<>>
    /\ nearest_resistance = <<>>
    /\ nearest_support = <<>>
    /\ levels_raised = ""
    /\ levels_pc = "none"

\* No call of signal_from_row is under way.
SignalNotCalled ==
    /\ signal_row = <<>>
    /\ signal = None
    /\ signal_raised = ""
    /\ signal_calls = 0
    /\ first_signal = None
    /\ signal_pc = "none"

\* No worker has been built.
WorkerNotCalled ==
    /\ store = None
    /\ store_up = TRUE
    /\ clock = 0
    /\ now_iso = 0
    /\ raw_candles = None
    /\ closed_candles = None
    /\ latest_signal = None
    /\ candle_time = None
    /\ exc = ""
    /\ failed_step = ""
    /\ previous = None
    /\ returned = None
    /\ worker_pc = "none"
    /\ computed_signals = {}
    /\ cycle_history = [cycle |-> None, success |-> None]

\* No composite store has been built.
StoreNotCalled ==
    /\ redis_configured = FALSE
    /\ redis_up = FALSE
    /\ redis_data = None
    /\ file_data = None
    /\ writer_pc = "none"
    /\ writing = 0
    /\ writes = 0
    /\ last_written = None
    /\ reader_pc = "none"
    /\ read_result = None
    /\ read_old = None

\* No call of normalize_snapshot is under way.
NormalizeNotCalled ==
    /\ snapshot_arg = [order |-> <<>>, items |-> <<>>]
    /\ normalized_once = None
    /\ normalized_again = None
    /\ normalize_pc = "none"

\* No indicator function has been called.
IndicatorsNotCalled ==
    /\ ind_fn = ""
    /\ ind_series = <<>>
    /\ ind_params = <<>>
    /\ ind_result = None
    /\ ind_raised = ""
    /\ ind_pc = "none"

\* compute_metrics has not been called on a list of its own.
MetricsNotCalled ==
    /\ metrics_trades = <<>>
    /\ metrics_result = None
    /\ metrics_pc = "none"

\* No app has been created.
ServiceNotCalled ==
    /\ service_pc = "none"
    /\ response = None

InitCall ==
    /\ data = <<>>
    /\ i = 0
    /\ pending_order = None
    /\ open_trade = None
    /\ trades = <<>>
    /\ high = None
    /\ low = None
    /\ final_close = None
    /\ result = None
    /\ raised = ""
    /\ pc = "validate"

\* No call of simulate_trades is under way.
BacktestNotCalled ==
    /\ frame = [columns |-> {}, index_type |-> "RangeIndex", index |-> <<>>,
                cells |-> None]
    /\ eval_start = 1
    /\ eval_end = 1
    /\ fee_rate = Zero
    /\ data = <<>>
    /\ i = 0
    /\ pending_order = None
    /\ open_trade = None
    /\ trades = <<>>
    /\ high = None
    /\ low = None
    /\ final_close = None
    /\ result = None
    /\ raised = ""
    /\ pc = "none"
    /\ earlier = None

\* A call on a frame of the model, or the test's call on the fixture with the
\* default window, which holds every row of the fixture.
Init ==
    /\ \/ /\ frame \in Frames
          /\ \E w \in Windows : eval_start = w[1] /\ eval_end = w[2]
       \/ /\ frame = FixtureFrame
          /\ eval_start = 1
          /\ eval_end = Len(FixtureRows)
    /\ fee_rate \in Fees
    /\ InitCall
    /\ earlier = None
    /\ LevelsNotCalled
    /\ SignalNotCalled
    /\ WorkerNotCalled
    /\ StoreNotCalled
    /\ ServiceNotCalled
    /\ NormalizeNotCalled
    /\ IndicatorsNotCalled
    /\ MetricsNotCalled

\* ValidateFrame putting the caller's frame in chronological order first.
ValidateFrameSortInPlace ==
    /\ pc = "validate"
    /\ frame' = [frame EXCEPT !.index = Ascending(Len(frame.index))]
    /\ LET missing == REQUIRED \ frame.columns
       IN IF missing # {}
          THEN /\ raised' = "Backtest frame missing columns"
               /\ pc' = "raised"
          ELSE IF frame.index_type # "DatetimeIndex"
          THEN /\ raised' = "Backtest frame index must be DatetimeIndex"
               /\ pc' = "raised"
          ELSE /\ pc' = "select"
               /\ UNCHANGED raised
    /\ UNCHANGED <<eval_start, eval_end, fee_rate, earlier, outside, data, i,
                   pending_order, open_trade, trades, high, low, final_close, result>>

\* Lines 175-180: the required columns and the index type.
ValidateFrame ==
    /\ pc = "validate"
    /\ LET missing == REQUIRED \ frame.columns
       IN IF missing # {}
          THEN /\ raised' = "Backtest frame missing columns"
               /\ pc' = "raised"
          ELSE IF frame.index_type # "DatetimeIndex"
          THEN /\ raised' = "Backtest frame index must be DatetimeIndex"
               /\ pc' = "raised"
          ELSE /\ pc' = "select"
               /\ UNCHANGED raised
    /\ UNCHANGED <<args, earlier, outside, data, i, pending_order, open_trade, trades, high, low,
                   final_close, result>>

\* InWindow without the lower end of the window.
InWindowFromFirstRow(k) == frame.index[k] <= eval_end

\* Line 184: rows with eval_start <= index <= eval_end, in frame order.
InWindow(k) == frame.index[k] >= eval_start /\ frame.index[k] <= eval_end

Window == SelectSeq([k \in 1..Len(frame.index) |-> k], InWindow)

\* Lines 182-205: the window, and the result of an empty window.
SelectWindow ==
    /\ pc = "select"
    /\ data' = Window
    /\ IF data' = <<>>
       THEN /\ result' = Some([trades |-> <<>>, metrics |-> compute_metrics(<<>>)])
            /\ pc' = "done"
            /\ UNCHANGED i
       ELSE /\ i' = 1
            /\ pc' = "promote"
            /\ UNCHANGED result
    /\ UNCHANGED <<args, earlier, outside, pending_order, open_trade, trades, high, low, final_close,
                   raised>>

\* OpenedTrade entering on the signal candle itself.
OpenedTradeAtSignal(order, t) ==
    [signal_time |-> order.signal_time,
     entry_time |-> order.signal_time,
     side |-> order.side,
     entry |-> order.entry,
     stop_loss |-> order.stop_loss,
     target |-> order.target]

\* Lines 209-216: the open trade made of a pending order at the row of time t.
OpenedTrade(order, t) ==
    [signal_time |-> order.signal_time,
     entry_time |-> t,
     side |-> order.side,
     entry |-> order.entry,
     stop_loss |-> order.stop_loss,
     target |-> order.target]

\* Promote without line 217: the order stays pending after it was entered.
PromoteKeepingOrder ==
    /\ pc = "promote"
    /\ IF open_trade = None /\ pending_order # None
       THEN /\ open_trade' = Some(OpenedTrade(Get(pending_order), ts))
            /\ UNCHANGED pending_order
       ELSE UNCHANGED <<open_trade, pending_order>>
    /\ pc' = "exit"
    /\ UNCHANGED <<args, earlier, outside, data, i, trades, high, low, final_close, result, raised>>

\* Lines 208-217: a pending order becomes the open trade at the current row.
Promote ==
    /\ pc = "promote"
    /\ IF open_trade = None /\ pending_order # None
       THEN /\ open_trade' = Some(OpenedTrade(Get(pending_order), ts))
            /\ pending_order' = None
       ELSE UNCHANGED <<open_trade, pending_order>>
    /\ pc' = "exit"
    /\ UNCHANGED <<args, earlier, outside, data, i, trades, high, low, final_close, result, raised>>

\* ExitOn with strict comparisons: a level is hit only when the candle goes
\* through it.
ExitOnStrict(side, stop_loss, target, h, l) ==
    LET hit_stop == IF side = "long" THEN l < stop_loss ELSE h > stop_loss
        hit_target == IF side = "long" THEN h > target ELSE l < target
    IN IF hit_stop /\ hit_target
       THEN Some([exit_price |-> stop_loss, exit_reason |-> "stop_and_target_same_candle"])
       ELSE IF hit_stop
       THEN Some([exit_price |-> stop_loss, exit_reason |-> "stop_loss"])
       ELSE IF hit_target
       THEN Some([exit_price |-> target, exit_reason |-> "target"])
       ELSE None

\* ExitOn with the target taken first when stop and target are both hit.
ExitOnTargetFirst(side, stop_loss, target, h, l) ==
    LET hit_stop == IF side = "long" THEN l <= stop_loss ELSE h >= stop_loss
        hit_target == IF side = "long" THEN h >= target ELSE l <= target
    IN IF hit_target
       THEN Some([exit_price |-> target,
                  exit_reason |-> IF hit_stop THEN "stop_and_target_same_candle"
                                  ELSE "target"])
       ELSE IF hit_stop
       THEN Some([exit_price |-> stop_loss, exit_reason |-> "stop_loss"])
       ELSE None

\* Lines 230-253: exit price and reason of a trade on a candle, None if it stays open.
ExitOn(side, stop_loss, target, h, l) ==
    LET hit_stop == IF side = "long" THEN l <= stop_loss ELSE h >= stop_loss
        hit_target == IF side = "long" THEN h >= target ELSE l <= target
    IN IF hit_stop /\ hit_target
       THEN Some([exit_price |-> stop_loss, exit_reason |-> "stop_and_target_same_candle"])
       ELSE IF hit_stop
       THEN Some([exit_price |-> stop_loss, exit_reason |-> "stop_loss"])
       ELSE IF hit_target
       THEN Some([exit_price |-> target, exit_reason |-> "target"])
       ELSE None

\* Lines 257-271 and 299-313: the closed trade appended to trades.
ClosedTrade(t, exit_time, exit_price, exit_reason) ==
    LET pnl == _trade_pnl(t.side, t.entry, exit_price, fee_rate)
    IN [signal_time |-> t.signal_time,
        entry_time |-> t.entry_time,
        exit_time |-> exit_time,
        side |-> t.side,
        entry |-> t.entry,
        stop_loss |-> t.stop_loss,
        target |-> t.target,
        exit_price |-> exit_price,
        pnl |-> pnl,
        outcome |-> Outcome(pnl),
        exit_reason |-> exit_reason]

\* CheckExit sparing the candle on which the trade was entered.
CheckExitAfterEntryCandle(h, l) ==
    /\ pc = "exit"
    /\ open_trade # None
    /\ high' = Some(h)
    /\ low' = Some(l)
    /\ LET t == Get(open_trade)
           exit == IF t.entry_time = ts THEN None
                   ELSE ExitOn(t.side, t.stop_loss, t.target, h, l)
       IN IF exit # None
          THEN /\ trades' = Append(trades, ClosedTrade(t, ts, Get(exit).exit_price,
                                                        Get(exit).exit_reason))
               /\ open_trade' = None
          ELSE UNCHANGED <<trades, open_trade>>
    /\ pc' = "signal"
    /\ UNCHANGED <<args, earlier, outside, data, i, pending_order, final_close, result, raised>>

\* Lines 219-272: the exit check of the open trade on the row's high and low.
CheckExit(h, l) ==
    /\ pc = "exit"
    /\ open_trade # None
    /\ high' = Some(h)
    /\ low' = Some(l)
    /\ LET t == Get(open_trade)
           exit == ExitOn(t.side, t.stop_loss, t.target, h, l)
       IN IF exit # None
          THEN /\ trades' = Append(trades, ClosedTrade(t, ts, Get(exit).exit_price,
                                                        Get(exit).exit_reason))
               /\ open_trade' = None
          ELSE UNCHANGED <<trades, open_trade>>
    /\ pc' = "signal"
    /\ UNCHANGED <<args, earlier, outside, data, i, pending_order, final_close, result, raised>>

\* Line 219 when no trade is open: the row's high and low are not read.
NoOpenTrade ==
    /\ pc = "exit"
    /\ open_trade = None
    /\ pc' = "signal"
    /\ UNCHANGED <<args, earlier, outside, data, i, pending_order, open_trade, trades, high, low,
                   final_close, result, raised>>

\* Line 207: the loop goes to the next row of data, or ends.  The high and low
\* of the row that is left are dead: lines 225-226 assign them before any use.
NextRow ==
    /\ high' = None
    /\ low' = None
    /\ IF i < Len(data)
       THEN /\ i' = i + 1
            /\ pc' = "promote"
       ELSE /\ pc' = "after_loop"
            /\ UNCHANGED i

\* Idle as a check of the pending order alone.
IdleIgnoringOpenTrade == pending_order = None

\* Line 274: no trade is open and no order is pending.
Idle == open_trade = None /\ pending_order = None

\* Lines 280-284: the condition under which a row's signal becomes an order.
Accepted(sig) ==
    /\ sig.action \in {"long", "short"}
    /\ notna(sig.entry) /\ notna(sig.stop_loss) /\ notna(sig.target)
    /\ _is_valid_order(sig.action, Get(sig.entry), Get(sig.stop_loss), Get(sig.target))

\* AcceptSignal dropping the signal of a candle on which a trade was closed.
AcceptSignalOnQuietCandle(sig) ==
    /\ pc = "signal"
    /\ Idle
    /\ high = None
    /\ Accepted(sig)
    /\ pending_order' = Some([signal_time |-> ts,
                              side |-> sig.action,
                              entry |-> Get(sig.entry),
                              stop_loss |-> Get(sig.stop_loss),
                              target |-> Get(sig.target)])
    /\ NextRow
    /\ UNCHANGED <<args, earlier, outside, data, open_trade, trades, final_close, result, raised>>

\* Lines 274-291, condition true: while idle, the row's signal becomes the
\* pending order.
AcceptSignal(sig) ==
    /\ pc = "signal"
    /\ Idle
    /\ Accepted(sig)
    /\ pending_order' = Some([signal_time |-> ts,
                              side |-> sig.action,
                              entry |-> Get(sig.entry),
                              stop_loss |-> Get(sig.stop_loss),
                              target |-> Get(sig.target)])
    /\ NextRow
    /\ UNCHANGED <<args, earlier, outside, data, open_trade, trades, final_close, result, raised>>

\* Lines 274-284, condition false: while idle, a row whose action is wait, or
\* whose order has a NaN cell or a wrong ordering, creates nothing.
Reject ==
    /\ pc = "signal"
    /\ Idle
    /\ NextRow
    /\ UNCHANGED <<args, earlier, outside, data, pending_order, open_trade, trades, final_close, result,
                   raised>>

\* Line 274 when a trade is open or an order is pending: the signal is not read.
NotIdle ==
    /\ pc = "signal"
    /\ ~Idle
    /\ NextRow
    /\ UNCHANGED <<args, earlier, outside, data, pending_order, open_trade, trades, final_close, result,
                   raised>>

\* Line 316: the call returns and its locals go out of scope.
Leave ==
    /\ pending_order' = None
    /\ open_trade' = None
    /\ high' = None
    /\ low' = None

\* CloseAtEnd closing the trade at its entry price instead of the last close.
CloseAtEntry(close) ==
    /\ pc = "after_loop"
    /\ open_trade # None
    /\ final_close' = Some(close)
    /\ LET final_ts == frame.index[data[Len(data)]]
           closed == Append(trades, ClosedTrade(Get(open_trade), final_ts,
                                                Get(open_trade).entry, "end_of_data"))
       IN /\ trades' = closed
          /\ result' = Some([trades |-> closed, metrics |-> compute_metrics(closed)])
    /\ Leave
    /\ pc' = "done"
    /\ UNCHANGED <<args, earlier, outside, data, i, raised>>

\* Lines 293-316: a trade still open after the last row is closed at its close.
CloseAtEnd(close) ==
    /\ pc = "after_loop"
    /\ open_trade # None
    /\ final_close' = Some(close)
    /\ LET final_ts == frame.index[data[Len(data)]]
           closed == Append(trades, ClosedTrade(Get(open_trade), final_ts, close,
                                                "end_of_data"))
       IN /\ trades' = closed
          /\ result' = Some([trades |-> closed, metrics |-> compute_metrics(closed)])
    /\ Leave
    /\ pc' = "done"
    /\ UNCHANGED <<args, earlier, outside, data, i, raised>>

\* Lines 293, 315-316: no trade is open after the last row.
Return ==
    /\ pc = "after_loop"
    /\ open_trade = None
    /\ result' = Some([trades |-> trades, metrics |-> compute_metrics(trades)])
    /\ Leave
    /\ pc' = "done"
    /\ UNCHANGED <<args, earlier, outside, data, i, trades, final_close, raised>>

\* The caller calls simulate_trades again with the same arguments, keeping what
\* the first call gave. Both calls see the same cells when the frame's cells
\* are given or the first call read none of them (i = 0: it never entered the
\* loop).
CallAgain ==
    /\ pc \in {"done", "raised"}
    /\ earlier = None
    /\ frame.cells # None \/ i = 0
    /\ earlier' = Some([result |-> result, raised |-> raised])
    /\ data' = <<>>
    /\ i' = 0
    /\ pending_order' = None
    /\ open_trade' = None
    /\ trades' = <<>>
    /\ high' = None
    /\ low' = None
    /\ final_close' = None
    /\ result' = None
    /\ raised' = ""
    /\ pc' = "validate"
    /\ UNCHANGED <<args, outside>>

\* ---- the cells of the frame, as the code reads them ----
\* The row of the fixture the loop is at.
FixtureRow == Get(frame.cells)[data[i]]

\* row["high"], row["low"] (lines 225-226).
RowCandles ==
    IF pc # "exit" THEN {}
    ELSE IF frame.cells = None THEN Candles
    ELSE {[high |-> FixtureRow.high, low |-> FixtureRow.low]}

\* row["action"], row["entry"], row["stop_loss"], row["target"] (lines 275-278).
RowSignals ==
    IF pc # "signal" THEN {}
    ELSE IF frame.cells = None THEN Signals
    ELSE {FixtureRow.signal}

\* data.iloc[-1]["close"] (line 295): any price, the code relates the close of
\* a row to none of its other cells.
LastCloses ==
    IF pc # "after_loop" THEN {}
    ELSE IF frame.cells = None THEN Prices
    ELSE {Get(frame.cells)[data[Len(data)]].close}

\* While idle, a row whose signal is not accepted creates nothing.
RejectSignal ==
    /\ (\E sig \in RowSignals : ~Accepted(sig)) = TRUE
    /\ Reject

Next ==
    \/ ValidateFrame
    \/ SelectWindow
    \/ Promote
    \/ \E c \in RowCandles : CheckExit(c.high, c.low)
    \/ NoOpenTrade
    \/ \E sig \in RowSignals : AcceptSignal(sig)
    \/ RejectSignal
    \/ NotIdle
    \/ \E close \in LastCloses : CloseAtEnd(close)
    \/ Return

Spec == Init /\ [][Next]_vars

\* A call of simulate_trades that the caller may repeat.
NextAgain ==
    \/ Next
    \/ CallAgain

SpecAgain == Init /\ [][NextAgain]_vars

\* ======================= properties of simulate_trades =======================

\* Timestamp of the k-th row of the window.
TimeAt(k) == frame.index[data[k]]

\* The trade the exit check of the current row was applied to: the open trade
\* if it stayed open, else the trade closed last.
Checked == IF open_trade # None THEN Get(open_trade) ELSE trades[Len(trades)]

\* The exit check of the current row has run on a trade.
ExitChecked == pc = "signal" /\ high # None /\ low # None

StopTriggered(t) ==
    IF t.side = "long" THEN Get(low) <= t.stop_loss ELSE Get(high) >= t.stop_loss

TargetTriggered(t) ==
    IF t.side = "long" THEN Get(high) >= t.target ELSE Get(low) <= t.target

\* The trade checked on the current row was closed on it at the given price
\* with the given reason.
ClosedHere(price, reason) ==
    /\ open_trade = None
    /\ trades # <<>>
    /\ trades[Len(trades)].exit_time = ts
    /\ trades[Len(trades)].exit_price = price
    /\ trades[Len(trades)].exit_reason = reason

\* C1: at every point of the walk never both an open trade and a pending order
\* exist; a pending order appears only in a step that starts with neither and
\* leaves no open trade; and on a row where the trade stays open or an order is
\* pending the signal check changes neither the pending order, the open trade
\* nor the trade list.
C1_NeverBoth == ~(open_trade # None /\ pending_order # None)

C1_OrderOnlyWhenIdle ==
    (pending_order' # None /\ pending_order' # pending_order)
        => (open_trade = None /\ pending_order = None /\ open_trade' = None)

C1_SignalDroppedWhileBusy ==
    (pc = "signal" /\ (open_trade # None \/ pending_order # None))
        => (pending_order' = pending_order /\ open_trade' = open_trade
            /\ trades' = trades)

C1_SinglePosition ==
    /\ []C1_NeverBoth
    /\ [][C1_OrderOnlyWhenIdle]_vars
    /\ [][C1_SignalDroppedWhileBusy]_vars

\* C1 witness: a trade that stayed open over a whole row, whose signal was
\* therefore dropped, is checked again on a later row.
C1_Witness ==
    /\ pc = "exit"
    /\ open_trade # None
    /\ Get(open_trade).entry_time # ts
    /\ pending_order = None

\* C2: a pending order exists only between the signal check of its row and the
\* top of the loop on the next row (or the end of the loop), with signal_time
\* the time of the row it came from; the next step of the loop turns it into
\* the open trade with entry_time the current row's time and the order's side,
\* entry, stop_loss and target; so every open or closed trade has its
\* entry_time on the row that follows its signal row in the window.
C2_PendingIsFresh ==
    pending_order # None =>
        /\ open_trade = None
        /\ \/ pc = "promote" /\ i > 1 /\ Get(pending_order).signal_time = TimeAt(i - 1)
           \/ pc = "after_loop" /\ Get(pending_order).signal_time = TimeAt(Len(data))

C2_EntersNextRow(t) ==
    \E k \in 1..(Len(data) - 1) :
        t.signal_time = TimeAt(k) /\ t.entry_time = TimeAt(k + 1)

C2_TradesEnterNextRow ==
    /\ open_trade # None => C2_EntersNextRow(Get(open_trade))
    /\ \A k \in 1..Len(trades) : C2_EntersNextRow(trades[k])

C2_PromotedAtOnce ==
    (pc = "promote" /\ pending_order # None) =>
        /\ pending_order' = None
        /\ open_trade' # None
        /\ Get(open_trade').signal_time = Get(pending_order).signal_time
        /\ Get(open_trade').entry_time = ts
        /\ Get(open_trade').side = Get(pending_order).side
        /\ Get(open_trade').entry = Get(pending_order).entry
        /\ Get(open_trade').stop_loss = Get(pending_order).stop_loss
        /\ Get(open_trade').target = Get(pending_order).target

C2_EntryOnNextCandle ==
    /\ [](C2_PendingIsFresh /\ C2_TradesEnterNextRow)
    /\ [][C2_PromotedAtOnce]_vars

\* C2 witness: a run has returned two closed trades.
C2_Witness == pc = "done" /\ Len(trades) = 2

\* C3: when the candle of the current row triggers both the stop and the target
\* of the trade that was open on it, the trade is closed on this row at its
\* stop_loss with reason stop_and_target_same_candle.
C3_TieExitsAtStop ==
    ExitChecked =>
        ((StopTriggered(Checked) /\ TargetTriggered(Checked))
            => ClosedHere(Checked.stop_loss, "stop_and_target_same_candle"))

\* C3 witness: a candle has just triggered both levels of a short trade.
C3_Witness ==
    /\ ExitChecked
    /\ Checked.side = "short"
    /\ StopTriggered(Checked) /\ TargetTriggered(Checked)

\* C4: when the candle of the current row triggers only the stop of the trade
\* that was open on it, the trade is closed on this row at stop_loss with
\* reason stop_loss; when it triggers only the target, at target with reason
\* target; when it triggers neither, the trade stays open; and a step of the
\* exit check that leaves the trade open leaves the trade list unchanged.
C4_ExitByHighLow ==
    ExitChecked =>
        LET t == Checked
        IN /\ (StopTriggered(t) /\ ~TargetTriggered(t))
                => ClosedHere(t.stop_loss, "stop_loss")
           /\ (TargetTriggered(t) /\ ~StopTriggered(t))
                => ClosedHere(t.target, "target")
           /\ (~StopTriggered(t) /\ ~TargetTriggered(t)) => open_trade # None

C4_OpenTradeRecordsNothing ==
    (pc = "exit" /\ open_trade' # None)
        => (open_trade' = open_trade /\ trades' = trades)

C4_ExitDecision ==
    /\ []C4_ExitByHighLow
    /\ [][C4_OpenTradeRecordsNothing]_vars

\* C4 witness: one trade was closed by its target alone, and the candle of the
\* current row has just touched the stop alone of the next one.
C4_Witness ==
    /\ ExitChecked
    /\ Len(trades) = 2
    /\ trades[1].exit_reason = "target"
    /\ trades[2].exit_reason = "stop_loss"
    /\ trades[2].exit_time = ts
    /\ (Get(low) = trades[2].stop_loss \/ Get(high) = trades[2].stop_loss)

\* C5: a trade is appended to the trade list exactly when the open trade goes
\* away, one at a time and with the open trade's signal_time, entry_time, side
\* and levels; a trade still open after the last row is closed with exit_price
\* the last close, exit_time the last row's time and reason end_of_data; only
\* the last trade of a returned list can have reason end_of_data.
C5_OneTradePerOpenTrade ==
    /\ (open_trade # None /\ open_trade' # open_trade)
         => (open_trade' = None /\ Len(trades') = Len(trades) + 1)
    /\ (trades' # trades)
         => /\ open_trade # None
            /\ open_trade' = None
            /\ Len(trades') = Len(trades) + 1
            /\ SubSeq(trades', 1, Len(trades)) = trades
            /\ OpenedTrade(trades'[Len(trades')], trades'[Len(trades')].entry_time)
                 = Get(open_trade)

C5_ClosedAtLastClose ==
    /\ (pc = "after_loop" /\ open_trade # None)
         => TimeAt(i) = TimeAt(Len(data))
    /\ (pc = "done" /\ final_close # None)
         => /\ trades # <<>>
            /\ trades[Len(trades)].exit_reason = "end_of_data"
            /\ trades[Len(trades)].exit_price = Get(final_close)
            /\ trades[Len(trades)].exit_time = TimeAt(Len(data))
            /\ Get(result).trades = trades
    /\ (pc = "done" /\ result # None) => open_trade = None
    /\ \A k \in 1..Len(trades) :
         trades[k].exit_reason = "end_of_data"
            => (k = Len(trades) /\ pc = "done" /\ final_close # None)

C5_EndOfData ==
    /\ []C5_ClosedAtLastClose
    /\ [][C5_OneTradePerOpenTrade]_vars
    /\ [][(pc = "after_loop" /\ open_trade # None)
            => (pc' = "done" /\ final_close' # None)]_vars

\* C5 witness: a run returned two trades, the second closed by end_of_data at
\* a price other than its entry.
C5_Witness ==
    /\ pc = "done"
    /\ Len(trades) = 2
    /\ trades[2].exit_reason = "end_of_data"
    /\ trades[2].exit_price # trades[2].entry

\* C6: a pending order is created only from a row whose action is long or
\* short, whose entry, stop_loss and target are all present and, for a long,
\* stop_loss < entry < target, for a short, target < entry < stop_loss, and it
\* holds that row's values; so every pending order, open trade and closed trade
\* satisfies the ordering of its side.
C6_Ordered(o) ==
    \/ o.side = "long" /\ o.stop_loss < o.entry /\ o.entry < o.target
    \/ o.side = "short" /\ o.target < o.entry /\ o.entry < o.stop_loss

C6_AllOrdered ==
    /\ pending_order # None => C6_Ordered(Get(pending_order))
    /\ open_trade # None => C6_Ordered(Get(open_trade))
    /\ \A k \in 1..Len(trades) : C6_Ordered(trades[k])

C6_FromValidRow ==
    (pending_order' # None /\ pending_order' # pending_order) =>
        \E sig \in RowSignals :
            /\ sig.action \in {"long", "short"}
            /\ sig.entry # None /\ sig.stop_loss # None /\ sig.target # None
            /\ Get(pending_order') =
                 [signal_time |-> ts, side |-> sig.action, entry |-> Get(sig.entry),
                  stop_loss |-> Get(sig.stop_loss), target |-> Get(sig.target)]
            /\ C6_Ordered(Get(pending_order'))

C6_OnlyValidOrders ==
    /\ []C6_AllOrdered
    /\ [][C6_FromValidRow]_vars

\* C6 witness: a run returned a long and a short trade.
C6_Witness ==
    /\ pc = "done"
    /\ \E j, k \in 1..Len(trades) : trades[j].side = "long" /\ trades[k].side = "short"

\* C7: for every closed trade, pnl = (exit_price - entry)/entry - 2*fee_rate for
\* a long and (entry - exit_price)/entry - 2*fee_rate for a short (as an
\* equation of fractions, cross-multiplied), and its outcome is win iff pnl > 0,
\* loss iff pnl < 0, flat iff pnl = 0.
C7_Gross(t) ==
    IF t.side = "long" THEN t.exit_price - t.entry ELSE t.entry - t.exit_price

C7_PnlOf(t) ==
    /\ t.pnl.den > 0
    /\ t.pnl.num * (t.entry * fee_rate.den)
         = t.pnl.den * (C7_Gross(t) * fee_rate.den - 2 * fee_rate.num * t.entry)

C7_OutcomeOf(t) ==
    /\ t.outcome = "win" <=> t.pnl.num > 0
    /\ t.outcome = "loss" <=> t.pnl.num < 0
    /\ t.outcome = "flat" <=> t.pnl.num = 0
    /\ t.outcome \in {"win", "loss", "flat"}

C7_PnlAndOutcome ==
    \A k \in 1..Len(trades) : C7_PnlOf(trades[k]) /\ C7_OutcomeOf(trades[k])

\* C7 witness: with a non-zero fee, a run returned a winning trade closed by
\* its target and a losing trade closed by end_of_data.
C7_Witness ==
    /\ pc = "done"
    /\ fee_rate # Zero
    /\ Len(trades) = 2
    /\ trades[1].exit_reason = "target" /\ trades[1].outcome = "win"
    /\ trades[2].exit_reason = "end_of_data" /\ trades[2].outcome = "loss"

\* ======================= properties of compute_metrics =======================

\* Sum of the pnls of the trades of tl at the positions in S.
RECURSIVE C8_Sum(_, _)
C8_Sum(tl, S) ==
    IF S = {} THEN Zero
    ELSE LET k == CHOOSE x \in S : TRUE
         IN RAdd(tl[k].pnl, C8_Sum(tl, S \ {k}))

\* Product of (1 + pnl) over the first k trades of tl.
RECURSIVE C8_Equity(_, _)
C8_Equity(tl, k) ==
    IF k = 0 THEN One ELSE RMul(RAdd(One, tl[k].pnl), C8_Equity(tl, k - 1))

\* Largest equity over the first k trades of tl.
C8_Peak(tl, k) ==
    CHOOSE e \in {C8_Equity(tl, j) : j \in 1..k} :
        \A j \in 1..k : RLe(C8_Equity(tl, j), e)

\* Equity over peak, minus 1, after the k-th trade (a float: 0/0 is NaN).
C8_Drawdown(tl, k) == FSubOne(FDiv(C8_Equity(tl, k), C8_Peak(tl, k)))

\* Smallest drawdown; as floats, NaN values are skipped.
C8_MinDrawdown(tl) ==
    LET D == {C8_Drawdown(tl, k) : k \in 1..Len(tl)} \ {NaN}
    IN IF D = {} THEN NaN
       ELSE IF NegInf \in D THEN NegInf
       ELSE CHOOSE d \in D : \A e \in D : RLe(d, e)

C8_Metrics(tl) ==
    LET n == Len(tl)
        W == {k \in 1..n : tl[k].pnl.num > 0}
        L == {k \in 1..n : tl[k].pnl.num < 0}
    IN IF n = 0
       THEN [win_rate |-> Zero, avg_pl |-> Zero, avg_win |-> Zero, avg_loss |-> Zero,
             max_drawdown |-> Zero, trades_count |-> 0]
       ELSE [win_rate |-> Rat(100 * Cardinality(W), n),
             avg_pl |-> RDiv(C8_Sum(tl, 1..n), Rat(n, 1)),
             avg_win |-> IF W = {} THEN Zero
                         ELSE RDiv(C8_Sum(tl, W), Rat(Cardinality(W), 1)),
             avg_loss |-> IF L = {} THEN Zero
                          ELSE RDiv(C8_Sum(tl, L), Rat(Cardinality(L), 1)),
             max_drawdown |-> C8_MinDrawdown(tl),
             trades_count |-> n]

\* C8: the metrics a call returns are, for its trade list: trades_count the
\* number of trades, win_rate 100 times the share of trades with pnl > 0,
\* avg_pl the mean pnl, avg_win and avg_loss the means of the positive and of
\* the negative pnls (0 if none), max_drawdown the minimum over the trades of
\* running product of (1 + pnl) over its running maximum, minus 1; and 0 for
\* every metric when the list is empty, an empty window included.
C8_MetricsOfTrades ==
    result # None =>
        /\ Get(result).metrics = C8_Metrics(Get(result).trades)
        /\ Get(result).trades = trades
        /\ (data = <<>> => Get(result).metrics = C8_Metrics(<<>>))

\* C8 witness: a call returned a win followed by a loss, with a negative
\* max_drawdown.
C8_Witness ==
    /\ result # None
    /\ Len(Get(result).trades) = 2
    /\ Get(result).trades[1].pnl.num > 0
    /\ Get(result).trades[2].pnl.num < 0
    /\ Get(result).metrics.max_drawdown.num < 0

\* The test's call: the fixture, the default window, fee_rate 0.
C9_FixtureCall == frame = FixtureFrame /\ fee_rate = Zero

\* C9: on the reference fixture with fee_rate 0 the call returns exactly 2
\* trades and win_rate 50, avg_pl 0.025, avg_win 0.10, avg_loss -0.05,
\* max_drawdown -0.05, trades_count 2.
C9_FixtureMetrics ==
    (C9_FixtureCall /\ pc = "done") =>
        /\ result # None
        /\ Len(Get(result).trades) = 2
        /\ Get(result).metrics =
             [win_rate |-> Rat(50, 1), avg_pl |-> Rat(25, 1000),
              avg_win |-> Rat(10, 100), avg_loss |-> Rat(-5, 100),
              max_drawdown |-> Rat(-5, 100), trades_count |-> 2]

\* C9 witness: the call on the fixture has returned.
C9_Witness == C9_FixtureCall /\ pc = "done" /\ result # None

\* ======================= validation of the frame =======================

C10_MissingColumn == REQUIRED \ frame.columns # {}

\* The index is in chronological (ascending) order.
C10_Chronological ==
    \A k \in 1..(Len(frame.index) - 1) : frame.index[k] <= frame.index[k + 1]

\* No candle has been simulated and nothing has been returned.
C10_NothingSimulated ==
    /\ data = <<>> /\ i = 0
    /\ trades = <<>>
    /\ result = None

\* C10: a frame that lacks a required column or whose index is not in
\* chronological (ascending) order makes the call fail before any candle is
\* simulated: no row of it is ever walked, and the call returns no trades and
\* no metrics.
C10_RejectsNonChronological ==
    (C10_MissingColumn \/ ~C10_Chronological) =>
        /\ C10_NothingSimulated
        /\ pc \in {"validate", "select", "raised"}

\* What lines 175-180 do enforce: a frame that lacks a required column or whose
\* index is not a DatetimeIndex fails before any candle is simulated; every
\* other frame passes, whatever the order of its index.
C10_RejectsByColumnsAndIndexType ==
    pc # "validate" =>
        IF C10_MissingColumn \/ frame.index_type # "DatetimeIndex"
        THEN pc = "raised" /\ raised # "" /\ C10_NothingSimulated
        ELSE pc # "raised" /\ raised = ""

\* A frame whose index runs backwards has been simulated to a result with a
\* trade in it.
C10_SimulatedOutOfOrder ==
    /\ ~C10_Chronological
    /\ result # None
    /\ Get(result).trades # <<>>

\* ======================= the caller's frame =======================

\* The frame is the same after every step of a call.
C11_FrameUntouched == [][frame' = frame]_vars

\* A second call with the same arguments ends as the first did: the same
\* trades and metrics, or the same error.
C11_SameAgain ==
    (earlier # None /\ pc \in {"done", "raised"}) =>
        /\ result = Get(earlier).result
        /\ raised = Get(earlier).raised

MaxCandles == 3
MaxLevel == 2
DefaultWindow == 3

LevelPrices == 1..MaxLevel
LevelCandles ==
    {c \in [high : LevelPrices, low : LevelPrices, close : LevelPrices] :
        c.low <= c.close /\ c.close <= c.high}
Series(n) == UNION {[1..m -> LevelCandles] : m \in 0..n}
LevelColumns == {"high", "low", "close"}

SetMax(S) == CHOOSE x \in S : \A y \in S : y <= x
SetMin(S) == CHOOSE x \in S : \A y \in S : x <= y
Range(seq) == {seq[k] : k \in 1..Len(seq)}

\* Series.rolling(w, min_periods): the values at the up to w positions ending at
\* k, None (NaN) when fewer than min_periods of them exist.
Rolling(values, w, min_periods, k) ==
    LET first == IF k - w + 1 > 1 THEN k - w + 1 ELSE 1
    IN IF k - first + 1 < min_periods THEN None
       ELSE Some({values[j] : j \in first..k})

RollingMax(values, w, min_periods, k) ==
    LET r == Rolling(values, w, min_periods, k)
    IN IF r = None THEN None ELSE Some(SetMax(Get(r)))

RollingMin(values, w, min_periods, k) ==
    LET r == Rolling(values, w, min_periods, k)
    IN IF r = None THEN None ELSE Some(SetMin(Get(r)))

\* series.where(series.eq(rolling)) at one position: the value where it equals
\* the rolling value, NaN elsewhere (nothing equals NaN).
WhereEq(value, rolling) ==
    IF rolling # None /\ value = Get(rolling) THEN Some(value) ELSE None

PivotRow(row, rolling_high, rolling_low) ==
    [high |-> row.high, low |-> row.low, close |-> row.close,
     pivot_high |-> WhereEq(row.high, rolling_high),
     pivot_low |-> WhereEq(row.low, rolling_low)]

\* detect_pivots with the window centred on the candle: it reaches one candle
\* into the future.
DetectPivotsCentred(rows, w) ==
    LET highs == [k \in 1..Len(rows) |-> rows[k].high]
        lows == [k \in 1..Len(rows) |-> rows[k].low]
        At(k) == IF k + 1 <= Len(rows) THEN k + 1 ELSE 0
    IN [k \in 1..Len(rows) |->
          PivotRow(rows[k],
                   IF At(k) = 0 THEN None ELSE RollingMax(highs, w, w, At(k)),
                   IF At(k) = 0 THEN None ELSE RollingMin(lows, w, w, At(k)))]

\* detect_pivots with min_periods = 1: the first candles are compared with the
\* candles there are.
DetectPivotsPartialWindow(rows, w) ==
    LET highs == [k \in 1..Len(rows) |-> rows[k].high]
        lows == [k \in 1..Len(rows) |-> rows[k].low]
    IN [k \in 1..Len(rows) |->
          PivotRow(rows[k], RollingMax(highs, w, 1, k), RollingMin(lows, w, 1, k))]

\* Lines 27-33: the pivot columns of a frame with high and low, for w > 0.
detect_pivots(rows, w) ==
    LET highs == [k \in 1..Len(rows) |-> rows[k].high]
        lows == [k \in 1..Len(rows) |-> rows[k].low]
    IN [k \in 1..Len(rows) |->
          PivotRow(rows[k], RollingMax(highs, w, w, k), RollingMin(lows, w, w, k))]

\* The four lists of the loop, before the first row (lines 42-46).
NoLevels ==
    [supports_seen |-> <<>>, resistances_seen |-> <<>>,
     nearest_resistance |-> <<>>, nearest_support |-> <<>>]

\* The body of the loop with strict comparisons: a level equal to the close
\* does not count.
LevelsBodyStrict(st, row) ==
    LET res == IF notna(row.pivot_high)
               THEN Append(st.resistances_seen, Get(row.pivot_high))
               ELSE st.resistances_seen
        sup == IF notna(row.pivot_low)
               THEN Append(st.supports_seen, Get(row.pivot_low))
               ELSE st.supports_seen
        price == row.close
        above == SelectSeq(res, LAMBDA r : r > price)
        below == SelectSeq(sup, LAMBDA x : x < price)
    IN [supports_seen |-> sup,
        resistances_seen |-> res,
        nearest_resistance |->
            Append(st.nearest_resistance,
                   IF above # <<>> THEN Some(SetMin(Range(above))) ELSE None),
        nearest_support |->
            Append(st.nearest_support,
                   IF below # <<>> THEN Some(SetMax(Range(below))) ELSE None)]

\* Lines 49-62: the body of the loop, on the lists st and a row of out.
LevelsBody(st, row) ==
    LET res == IF notna(row.pivot_high)
               THEN Append(st.resistances_seen, Get(row.pivot_high))
               ELSE st.resistances_seen
        sup == IF notna(row.pivot_low)
               THEN Append(st.supports_seen, Get(row.pivot_low))
               ELSE st.supports_seen
        price == row.close
        above == SelectSeq(res, LAMBDA r : r >= price)
        below == SelectSeq(sup, LAMBDA x : x <= price)
    IN [supports_seen |-> sup,
        resistances_seen |-> res,
        nearest_resistance |->
            Append(st.nearest_resistance,
                   IF above # <<>> THEN Some(SetMin(Range(above))) ELSE None),
        nearest_support |->
            Append(st.nearest_support,
                   IF below # <<>> THEN Some(SetMax(Range(below))) ELSE None)]

\* Line 48: the loop over the first t rows of out.
RECURSIVE LevelsLoop(_, _)
LevelsLoop(pivots, t) ==
    IF t = 0 THEN NoLevels ELSE LevelsBody(LevelsLoop(pivots, t - 1), pivots[t])

\* Lines 64-65: the two columns added to out.
WithLevels(pivots, st) ==
    [k \in 1..Len(pivots) |->
        [high |-> pivots[k].high, low |-> pivots[k].low, close |-> pivots[k].close,
         pivot_high |-> pivots[k].pivot_high, pivot_low |-> pivots[k].pivot_low,
         nearest_resistance |-> st.nearest_resistance[k],
         nearest_support |-> st.nearest_support[k]]]

\* Lines 41-66: add_levels as a function of a frame with every column and a
\* positive window.
add_levels(rows, w) ==
    LET pivots == detect_pivots(rows, w)
    IN WithLevels(pivots, LevelsLoop(pivots, Len(pivots)))

\* A call of add_levels: a series with every column and a window 1..3, or a
\* short series that lacks a column or comes with a window of 0 or less.
InitLevels ==
    /\ \/ /\ df \in [columns : {LevelColumns}, rows : Series(MaxCandles)]
          /\ window \in 1..DefaultWindow
       \/ /\ df \in [columns : {LevelColumns \ {c} : c \in LevelColumns},
                     rows : Series(1)]
          /\ window \in 0..DefaultWindow
       \/ /\ df \in [columns : {LevelColumns}, rows : Series(1)]
          /\ window \in {-1, 0}
    /\ out = <<>>
    /\ supports_seen = <<>>
    /\ resistances_seen = <<>>
    /\ nearest_resistance = <<>>
    /\ nearest_support = <<>>
    /\ levels_raised = ""
    /\ levels_pc = "add_levels"
    /\ BacktestNotCalled
    /\ SignalNotCalled
    /\ WorkerNotCalled
    /\ StoreNotCalled
    /\ ServiceNotCalled
    /\ NormalizeNotCalled
    /\ IndicatorsNotCalled
    /\ MetricsNotCalled

\* Lines 38-39.
AddLevelsCall ==
    /\ levels_pc = "add_levels"
    /\ IF "close" \notin df.columns
       THEN /\ levels_raised' = "DataFrame must contain close column"
            /\ levels_pc' = "raised"
       ELSE /\ levels_pc' = "detect_pivots"
            /\ UNCHANGED levels_raised
    /\ UNCHANGED <<df, window, out, supports_seen, resistances_seen,
                   nearest_resistance, nearest_support, outside_levels>>

\* Lines 41-46 and 22-33: the call of detect_pivots, then the empty lists.
DetectPivots ==
    /\ levels_pc = "detect_pivots"
    /\ IF window <= 0
       THEN /\ levels_raised' = "window must be positive"
            /\ levels_pc' = "raised"
            /\ UNCHANGED out
       ELSE IF "high" \notin df.columns \/ "low" \notin df.columns
       THEN /\ levels_raised' = "DataFrame must contain high and low columns"
            /\ levels_pc' = "raised"
            /\ UNCHANGED out
       ELSE /\ out' = detect_pivots(df.rows, window)
            /\ levels_pc' = "loop"
            /\ UNCHANGED levels_raised
    /\ supports_seen' = <<>>
    /\ resistances_seen' = <<>>
    /\ nearest_resistance' = <<>>
    /\ nearest_support' = <<>>
    /\ UNCHANGED <<df, window, outside_levels>>

\* Lines 48-62: one row of the loop.
LevelsRow ==
    /\ levels_pc = "loop"
    /\ Len(nearest_resistance) < Len(out)
    /\ LET st == LevelsBody([supports_seen |-> supports_seen,
                             resistances_seen |-> resistances_seen,
                             nearest_resistance |-> nearest_resistance,
                             nearest_support |-> nearest_support],
                            out[Len(nearest_resistance) + 1])
       IN /\ supports_seen' = st.supports_seen
          /\ resistances_seen' = st.resistances_seen
          /\ nearest_resistance' = st.nearest_resistance
          /\ nearest_support' = st.nearest_support
    /\ UNCHANGED <<df, window, out, levels_raised, levels_pc, outside_levels>>

\* Lines 64-66: after the last row.
LevelsReturn ==
    /\ levels_pc = "loop"
    /\ Len(nearest_resistance) = Len(out)
    /\ out' = WithLevels(out, [supports_seen |-> supports_seen,
                               resistances_seen |-> resistances_seen,
                               nearest_resistance |-> nearest_resistance,
                               nearest_support |-> nearest_support])
    /\ levels_pc' = "done"
    /\ UNCHANGED <<df, window, supports_seen, resistances_seen, nearest_resistance,
                   nearest_support, levels_raised, outside_levels>>

NextLevels ==
    \/ AddLevelsCall
    \/ DetectPivots
    \/ LevelsRow
    \/ LevelsReturn

SpecLevels == InitLevels /\ [][NextLevels]_vars

\* ======================= properties of add_levels =======================

\* C12: the level tracker never looks ahead: the nearest_resistance and
\* nearest_support of every row t of the whole series are those add_levels gives
\* row t on the prefix of the series that ends at t, so candles after t have no
\* part in them.
C12_NoLookAhead ==
    levels_pc = "done" =>
        \A t \in 1..Len(out) :
            LET short == add_levels(SubSeq(df.rows, 1, t), window)
            IN /\ out[t].nearest_resistance = short[t].nearest_resistance
               /\ out[t].nearest_support = short[t].nearest_support

\* C12 witness: a row before the last has a resistance, and the last candle is a
\* pivot high at another price.
C12_Witness ==
    /\ levels_pc = "done"
    /\ Len(out) = MaxCandles
    /\ out[Len(out)].pivot_high # None
    /\ \E t \in 1..(Len(out) - 1) :
          /\ out[t].nearest_resistance # None
          /\ Get(out[t].nearest_resistance) # out[Len(out)].high

\* The pivot highs and lows among the first k rows.
C13_PivotHighs(k) == {out[j].high : j \in {x \in 1..k : out[x].pivot_high # None}}
C13_PivotLows(k) == {out[j].low : j \in {x \in 1..k : out[x].pivot_low # None}}

\* Every row the loop has done has the smallest pivot high seen so far (its own
\* included) that is >= its close and the largest pivot low seen so far that is
\* <= its close, or nothing when there is none.
C13_NearestOfSeen ==
    \A k \in 1..Len(nearest_resistance) :
        LET above == {x \in C13_PivotHighs(k) : x >= out[k].close}
            below == {x \in C13_PivotLows(k) : x <= out[k].close}
        IN /\ nearest_resistance[k] = IF above = {} THEN None ELSE Some(SetMin(above))
           /\ nearest_support[k] = IF below = {} THEN None ELSE Some(SetMax(below))

\* The lists of seen levels hold the pivots of the rows done so far.
C13_SeenArePivots ==
    levels_pc \in {"loop", "done"} =>
        /\ Range(resistances_seen) = C13_PivotHighs(Len(nearest_resistance))
        /\ Range(supports_seen) = C13_PivotLows(Len(nearest_support))

IsPrefix(a, b) == Len(a) <= Len(b) /\ a = SubSeq(b, 1, Len(a))

\* C13: each row gets the minimum of the pivot highs seen so far that are >= its
\* close and the maximum of the pivot lows seen so far that are <= its close,
\* its own pivot and levels equal to the close included, undefined when there
\* is none; the lists of seen levels only grow.
C13_NearestLevels ==
    /\ [](C13_NearestOfSeen /\ C13_SeenArePivots)
    /\ [][/\ IsPrefix(resistances_seen, resistances_seen')
          /\ IsPrefix(supports_seen, supports_seen')]_vars

\* C13 witness: a row whose resistance is its own close, a row without a
\* support, and two resistances seen.
C13_Witness ==
    /\ levels_pc = "done"
    /\ Len(resistances_seen) >= 2
    /\ \E k \in 1..Len(out) : out[k].nearest_resistance = Some(out[k].close)
    /\ \E k \in 1..Len(out) : out[k].nearest_support = None

\* The highs and lows of the up to `window` candles that end at candle k.
C14_TrailingHighs(k) ==
    {out[j].high : j \in (IF k - window + 1 > 1 THEN k - window + 1 ELSE 1)..k}
C14_TrailingLows(k) ==
    {out[j].low : j \in (IF k - window + 1 > 1 THEN k - window + 1 ELSE 1)..k}

\* C14: every candle, the first window-1 included, is a pivot high iff its high
\* is the maximum high of the trailing window that ends at it, and a pivot low
\* iff its low is the minimum low of that window.
C14_PivotIffExtreme ==
    \A k \in 1..Len(out) :
        /\ out[k].pivot_high # None <=> out[k].high = SetMax(C14_TrailingHighs(k))
        /\ out[k].pivot_low # None <=> out[k].low = SetMin(C14_TrailingLows(k))

\* C14 as amended: a candle is a pivot high iff `window` candles end at it and
\* its high is their maximum high, a pivot low iff its low is their minimum low;
\* the first window-1 candles are never pivots. A pivot carries the candle's
\* high or low.
C14_PivotIffFullWindowExtreme ==
    \A k \in 1..Len(out) :
        /\ out[k].pivot_high # None <=>
              (k >= window /\ out[k].high = SetMax(C14_TrailingHighs(k)))
        /\ out[k].pivot_low # None <=>
              (k >= window /\ out[k].low = SetMin(C14_TrailingLows(k)))
        /\ out[k].pivot_high # None => out[k].pivot_high = Some(out[k].high)
        /\ out[k].pivot_low # None => out[k].pivot_low = Some(out[k].low)

\* C14 witness: with a window of 2 or more, the first candle is no pivot and a
\* later candle is a pivot high but not a pivot low.
C14_Witness ==
    /\ window >= 2
    /\ Len(out) >= window
    /\ out[1].pivot_high = None /\ out[1].pivot_low = None
    /\ \E k \in window..Len(out) : out[k].pivot_high # None /\ out[k].pivot_low = None

\* ======================= signal_from_row (signals.py) =======================

\* Raw values of a field of the row: a number, or one of the values
\* _to_float_or_none turns into None; "missing" is a key the row does not have.
Number(n, d) == [kind |-> "number", value |-> Rat(n, d)]
NotANumber(kind) == [kind |-> kind, value |-> Zero]
Missing == NotANumber("missing")
Absents == {NotANumber(k) : k \in {"missing", "None", "NaN", "inf", "-inf", "text"}}

\* row.get(name): None for a key the row does not have.
RowGet(row, name) == IF row[name] = Missing THEN NotANumber("None") ELSE row[name]

\* Lines 11-20.
_to_float_or_none(value) ==
    IF value.kind = "None" THEN None
    ELSE IF value.kind = "text" THEN None
    ELSE IF value.kind \in {"NaN", "inf", "-inf"} THEN None
    ELSE Some(value.value)

\* Lines 34-40 and 88-94.
WaitSignal ==
    [action |-> "wait", entry |-> None, stop_loss |-> None, target |-> None,
     rr_ratio |-> None]

\* The condition of line 33 without the test for ema7 = 0.
NoPriceOrEmaKeepingZero(price, ema7) == price = None \/ ema7 = None

\* Line 33.
NoPriceOrEma(price, ema7) == price = None \/ ema7 = None \/ ema7 = Some(Zero)

\* near_ema with <= in place of <.
NearEmaInclusive(price, ema7) == RLe(RDiv(RSub(price, ema7), ema7), Rat(1, 100))

\* Line 42, for ema7 # 0.
near_ema(price, ema7) == RLt(RDiv(RSub(price, ema7), ema7), Rat(1, 100))

\* Lines 43-45.
macd_long_ok(macd_hist, macd_line) ==
    \/ macd_hist # None /\ RLt(Zero, Get(macd_hist))
    \/ macd_line # None /\ RLt(Zero, Get(macd_line))

\* Lines 46-48.
macd_short_ok(macd_hist, macd_line) ==
    \/ macd_hist # None /\ RLt(Get(macd_hist), Zero)
    \/ macd_line # None /\ RLt(Get(macd_line), Zero)

\* Lines 49-51.
volume_ok(volume, ma5_volume) ==
    volume # None /\ ma5_volume # None /\ RLt(Get(ma5_volume), Get(volume))

\* rsi_long_ok letting an absent rsi6 pass.
RsiLongOkWhenAbsent(rsi6) == rsi6 = None \/ RLt(Get(rsi6), Rat(70, 1))

\* Line 52.
rsi_long_ok(rsi6) == rsi6 # None /\ RLt(Get(rsi6), Rat(70, 1))

\* rsi_short_ok with >= in place of >.
RsiShortOkInclusive(rsi6) == rsi6 # None /\ RLe(Rat(30, 1), Get(rsi6))

\* Line 53.
rsi_short_ok(rsi6) == rsi6 # None /\ RLt(Rat(30, 1), Get(rsi6))

\* LongSignal giving a ratio also to a target at the entry price.
LongSignalTargetAtEntry(ema7, target) ==
    LET entry == RMul(ema7, Rat(101, 100))
        stop_loss == RMul(ema7, Rat(985, 1000))
        rr_ratio == IF target # None /\ RLt(stop_loss, entry) /\ RLe(entry, Get(target))
                    THEN Some(RDiv(RSub(Get(target), entry), RSub(entry, stop_loss)))
                    ELSE None
    IN [action |-> "long", entry |-> Some(entry), stop_loss |-> Some(stop_loss),
        target |-> target, rr_ratio |-> rr_ratio]

\* Lines 58-71.
LongSignal(ema7, target) ==
    LET entry == RMul(ema7, Rat(101, 100))
        stop_loss == RMul(ema7, Rat(985, 1000))
        rr_ratio == IF target # None /\ RLt(stop_loss, entry) /\ RLt(entry, Get(target))
                    THEN Some(RDiv(RSub(Get(target), entry), RSub(entry, stop_loss)))
                    ELSE None
    IN [action |-> "long", entry |-> Some(entry), stop_loss |-> Some(stop_loss),
        target |-> target, rr_ratio |-> rr_ratio]

\* Lines 73-86.
ShortSignal(ema7, target) ==
    LET entry == RMul(ema7, Rat(99, 100))
        stop_loss == RMul(ema7, Rat(1015, 1000))
        rr_ratio == IF target # None /\ RLt(entry, stop_loss) /\ RLt(Get(target), entry)
                    THEN Some(RDiv(RSub(entry, Get(target)), RSub(stop_loss, entry)))
                    ELSE None
    IN [action |-> "short", entry |-> Some(entry), stop_loss |-> Some(stop_loss),
        target |-> target, rr_ratio |-> rr_ratio]

Returns(sig) == [raised |-> "", value |-> Some(sig)]
Raises(exception) == [raised |-> exception, value |-> None]

\* Lines 23-94: what a call on the row gives, the dict it returns or the
\* exception it raises. Past line 33, line 42 subtracts and divides: a None
\* operand is a TypeError, a zero ema7 a ZeroDivisionError.
signal_from_row(row) ==
    LET price == _to_float_or_none(RowGet(row, "price"))
        ema7 == _to_float_or_none(RowGet(row, "ema7"))
        macd_hist == _to_float_or_none(RowGet(row, "macd_hist"))
        macd_line == _to_float_or_none(RowGet(row, "macd_line"))
        rsi6 == _to_float_or_none(RowGet(row, "rsi6"))
        volume == _to_float_or_none(RowGet(row, "volume"))
        ma5_volume == _to_float_or_none(RowGet(row, "ma5_volume"))
    IN IF NoPriceOrEma(price, ema7) THEN Returns(WaitSignal)
       ELSE IF price = None \/ ema7 = None THEN Raises("TypeError")
       ELSE IF ema7 = Some(Zero) THEN Raises("ZeroDivisionError")
       ELSE LET is_long == /\ RLt(Get(ema7), Get(price))
                           /\ macd_long_ok(macd_hist, macd_line)
                           /\ rsi_long_ok(rsi6)
                           /\ volume_ok(volume, ma5_volume)
                           /\ near_ema(Get(price), Get(ema7))
                is_short == /\ RLt(Get(price), Get(ema7))
                            /\ macd_short_ok(macd_hist, macd_line)
                            /\ rsi_short_ok(rsi6)
            IN IF is_long
               THEN Returns(LongSignal(Get(ema7),
                        _to_float_or_none(RowGet(row, "nearest_resistance"))))
               ELSE IF is_short
               THEN Returns(ShortSignal(Get(ema7),
                        _to_float_or_none(RowGet(row, "nearest_support"))))
               ELSE Returns(WaitSignal)

\* The rows of tests/test_signals.py.
TestRow(price, ema7, hist, line, rsi6, volume, ma5, resistance, support) ==
    [price |-> price, ema7 |-> ema7, macd_hist |-> hist, macd_line |-> line,
     rsi6 |-> rsi6, volume |-> volume, ma5_volume |-> ma5,
     nearest_resistance |-> resistance, nearest_support |-> support]

TestLongRow ==
    TestRow(Number(1009, 10), Number(100, 1), Number(2, 10), Number(-1, 10),
            Number(55, 1), Number(1200, 1), Number(1000, 1), Number(108, 1),
            Number(95, 1))
TestShortRow ==
    TestRow(Number(99, 1), Number(100, 1), Number(-2, 10), Number(1, 10),
            Number(40, 1), Number(900, 1), Number(1000, 1), Number(110, 1),
            Number(94, 1))
TestWaitRow ==
    TestRow(Number(1015, 10), Number(100, 1), Number(2, 10), Number(1, 10),
            Number(75, 1), Number(1200, 1), Number(1000, 1), Number(108, 1),
            Number(95, 1))

\* The rows the model calls signal_from_row with. price and ema7: one or both
\* absent in every way, or numbers on both sides of each other, at and around
\* the 1% distance, with ema7 positive, zero or negative.
PriceEmaPairs ==
    {<<a, Number(100, 1)>> : a \in Absents}
    \cup {<<Number(201, 2), a>> : a \in Absents}
    \cup {<<a, a>> : a \in Absents}
    \cup ({Number(-101, 1), Number(99, 1), Number(100, 1), Number(201, 2),
           Number(101, 1)}
          \X {Number(0, 1), Number(100, 1), Number(-100, 1)})

MacdHists == {NotANumber("NaN"), Number(-1, 1), Number(0, 1), Number(1, 1)}
MacdLines == {Missing, Number(-1, 1), Number(1, 1)}
Rsis == {NotANumber("None"), Number(30, 1), Number(50, 1), Number(70, 1)}
VolumePairs ==
    {<<NotANumber("NaN"), Number(1, 1)>>, <<Number(1, 1), Missing>>,
     <<Number(1, 1), Number(1, 1)>>, <<Number(2, 1), Number(1, 1)>>}
\* nearest_resistance and nearest_support: undefined, at the entry price of an
\* ema7 of 100, or beyond it.
LevelPairs ==
    {<<NotANumber("NaN"), NotANumber("NaN")>>, <<Number(101, 1), Number(99, 1)>>,
     <<Number(102, 1), Number(98, 1)>>}

SignalRows ==
    {TestRow(pe[1], pe[2], h, l, r, v[1], v[2], lv[1], lv[2]) :
        pe \in PriceEmaPairs, h \in MacdHists, l \in MacdLines, r \in Rsis,
        v \in VolumePairs, lv \in LevelPairs}
    \cup {TestLongRow, TestShortRow, TestWaitRow}

InitSignal ==
    /\ signal_row \in SignalRows
    /\ signal = None
    /\ signal_raised = ""
    /\ signal_calls = 1
    /\ first_signal = None
    /\ signal_pc = "call"
    /\ BacktestNotCalled
    /\ LevelsNotCalled
    /\ WorkerNotCalled
    /\ StoreNotCalled
    /\ ServiceNotCalled
    /\ NormalizeNotCalled
    /\ IndicatorsNotCalled
    /\ MetricsNotCalled

\* A call that returns the last signal again when the row gives `wait`.
SignalFromRowSticky ==
    /\ signal_pc = "call"
    /\ LET outcome == signal_from_row(signal_row)
       IN /\ signal' = IF outcome.value = Some(WaitSignal) /\ signal # None
                       THEN signal ELSE outcome.value
          /\ signal_raised' = outcome.raised
          /\ signal_pc' = IF outcome.raised = "" THEN "returned" ELSE "raised"
    /\ UNCHANGED <<signal_row, signal_calls, first_signal, outside_signal>>

\* Lines 23-94: one call of signal_from_row on the row.
SignalFromRow ==
    /\ signal_pc = "call"
    /\ LET outcome == signal_from_row(signal_row)
       IN /\ signal' = outcome.value
          /\ signal_raised' = outcome.raised
          /\ signal_pc' = IF outcome.raised = "" THEN "returned" ELSE "raised"
    /\ UNCHANGED <<signal_row, signal_calls, first_signal, outside_signal>>

NextSignal == SignalFromRow

SpecSignal == InitSignal /\ [][NextSignal]_vars

\* The caller keeps the result of its first call and calls with another row,
\* as build_signal_frame does row after row (line 103).
CallWithOtherRow ==
    /\ signal_pc = "returned"
    /\ signal_calls = 1
    /\ first_signal' = Some([row |-> signal_row, signal |-> signal])
    /\ signal_row' \in {TestShortRow, TestLongRow}
    /\ signal_calls' = 2
    /\ signal_pc' = "call"
    /\ UNCHANGED <<signal, signal_raised, outside_signal>>

\* The caller calls again with the row of its first call.
CallWithFirstRow ==
    /\ signal_pc = "returned"
    /\ signal_calls = 2
    /\ signal_row' = Get(first_signal).row
    /\ signal_calls' = 3
    /\ signal_pc' = "call"
    /\ UNCHANGED <<signal, signal_raised, first_signal, outside_signal>>

NextSignalAgain ==
    \/ SignalFromRow
    \/ CallWithOtherRow
    \/ CallWithFirstRow

SpecSignalAgain == InitSignal /\ [][NextSignalAgain]_vars

\* ======================= properties of signal_from_row =======================

\* The field f of the row is a finite number / its value.
Has(f) == signal_row[f].kind = "number"
Val(f) == signal_row[f].value

\* The call returned `wait` with every optional field absent.
ReturnedWait ==
    /\ signal_pc = "returned"
    /\ signal = Some([action |-> "wait", entry |-> None, stop_loss |-> None,
                      target |-> None, rr_ratio |-> None])

\* C15: a row whose price or ema7 is missing, None, NaN or infinite, or whose
\* ema7 is 0, gives `wait` with entry, stop_loss, target and rr_ratio absent,
\* whatever its other fields.
C15_WaitWithoutPriceOrEma ==
    LET absent(f) == signal_row[f].kind \in {"missing", "None", "NaN", "inf", "-inf"}
    IN (signal_pc # "call"
        /\ (absent("price") \/ absent("ema7") \/ signal_row.ema7 = Number(0, 1)))
       => ReturnedWait

\* C15 witness: a row with ema7 = 0 whose other fields are numbers gave `wait`,
\* and so did a row without price whose other fields satisfy the short rule.
C15_Witness ==
    /\ ReturnedWait
    /\ \/ /\ signal_row.ema7 = Number(0, 1)
          /\ Has("price") /\ Has("macd_hist") /\ Has("rsi6")
       \/ /\ signal_row.price.kind = "-inf"
          /\ signal_row.ema7 = Number(100, 1)
          /\ signal_row.macd_hist = Number(-1, 1)
          /\ signal_row.rsi6 = Number(50, 1)

\* The long rule, on the fields of the row.
LongRule ==
    /\ Has("price") /\ Has("ema7") /\ Val("ema7") # Zero
    /\ RLt(Val("ema7"), Val("price"))
    /\ \/ Has("macd_hist") /\ RLt(Zero, Val("macd_hist"))
       \/ Has("macd_line") /\ RLt(Zero, Val("macd_line"))
    /\ Has("rsi6") /\ RLt(Val("rsi6"), Rat(70, 1))
    /\ Has("volume") /\ Has("ma5_volume") /\ RLt(Val("ma5_volume"), Val("volume"))
    /\ RLt(RDiv(RSub(Val("price"), Val("ema7")), Val("ema7")), Rat(1, 100))

\* The short rule, on the fields of the row.
ShortRule ==
    /\ Has("price") /\ Has("ema7") /\ Val("ema7") # Zero
    /\ RLt(Val("price"), Val("ema7"))
    /\ \/ Has("macd_hist") /\ RLt(Val("macd_hist"), Zero)
       \/ Has("macd_line") /\ RLt(Val("macd_line"), Zero)
    /\ Has("rsi6") /\ RLt(Rat(30, 1), Val("rsi6"))

\* The field f as a target: its value, absent if it is not a finite number.
TargetFrom(f) == IF Has(f) THEN Some(Val(f)) ELSE None

\* C16: the call returns `long` exactly when price > ema7, macd_hist > 0 or
\* macd_line > 0, rsi6 < 70, volume > ma5_volume and (price - ema7)/ema7 < 0.01;
\* then entry = ema7 * 1.01, stop_loss = ema7 * 0.985, target =
\* nearest_resistance (absent if undefined) and rr_ratio = (target - entry) /
\* (entry - stop_loss) if target is present, entry > stop_loss and
\* target > entry, else absent. The test's long row gives 101, 98.5, 108, 2.8.
C16_LongRuleAndOutputs ==
    signal_pc # "call" =>
        /\ signal_pc = "returned"
        /\ Get(signal).action = "long" <=> LongRule
        /\ Get(signal).action = "long" =>
              LET entry == RMul(Val("ema7"), Rat(101, 100))
                  stop_loss == RMul(Val("ema7"), Rat(985, 1000))
                  target == TargetFrom("nearest_resistance")
              IN /\ Get(signal).entry = Some(entry)
                 /\ Get(signal).stop_loss = Some(stop_loss)
                 /\ Get(signal).target = target
                 /\ Get(signal).rr_ratio =
                       IF target # None /\ RLt(stop_loss, entry)
                          /\ RLt(entry, Get(target))
                       THEN Some(RDiv(RSub(Get(target), entry),
                                      RSub(entry, stop_loss)))
                       ELSE None
        /\ signal_row = TestLongRow =>
              signal = Some([action |-> "long", entry |-> Some(Rat(101, 1)),
                             stop_loss |-> Some(Rat(985, 10)),
                             target |-> Some(Rat(108, 1)),
                             rr_ratio |-> Some(Rat(28, 10))])

\* C16 witness: a long signal with rr_ratio, on a row other than the test's.
C16_Witness ==
    /\ signal_pc = "returned"
    /\ signal_row # TestLongRow
    /\ Get(signal).action = "long"
    /\ Get(signal).rr_ratio # None

\* C17: the call returns `short` exactly when the long rule does not hold and
\* price < ema7, macd_hist < 0 or macd_line < 0, and rsi6 > 30, whatever the
\* volume; then entry = ema7 * 0.99, stop_loss = ema7 * 1.015, target =
\* nearest_support (absent if undefined) and rr_ratio = (entry - target) /
\* (stop_loss - entry) if target is present, stop_loss > entry and
\* entry > target, else absent. Every row that is neither long nor short gives
\* `wait` with every optional field absent. The test's short row gives 99,
\* 101.5, 94, 2.
C17_ShortRuleAndOutputs ==
    signal_pc # "call" =>
        /\ signal_pc = "returned"
        /\ Get(signal).action = "short" <=> (~LongRule /\ ShortRule)
        /\ Get(signal).action = "short" =>
              LET entry == RMul(Val("ema7"), Rat(99, 100))
                  stop_loss == RMul(Val("ema7"), Rat(1015, 1000))
                  target == TargetFrom("nearest_support")
              IN /\ Get(signal).entry = Some(entry)
                 /\ Get(signal).stop_loss = Some(stop_loss)
                 /\ Get(signal).target = target
                 /\ Get(signal).rr_ratio =
                       IF target # None /\ RLt(entry, stop_loss)
                          /\ RLt(Get(target), entry)
                       THEN Some(RDiv(RSub(entry, Get(target)),
                                      RSub(stop_loss, entry)))
                       ELSE None
        /\ Get(signal).action \notin {"long", "short"} => ReturnedWait
        /\ signal_row = TestShortRow =>
              signal = Some([action |-> "short", entry |-> Some(Rat(99, 1)),
                             stop_loss |-> Some(Rat(1015, 10)),
                             target |-> Some(Rat(94, 1)),
                             rr_ratio |-> Some(Rat(2, 1))])

\* C17 witness: a short signal with rr_ratio on a row whose volume does not
\* exceed ma5_volume, on a row other than the test's.
C17_Witness ==
    /\ signal_pc = "returned"
    /\ signal_row # TestShortRow
    /\ Get(signal).action = "short"
    /\ Get(signal).rr_ratio # None
    /\ signal_row.volume = signal_row.ma5_volume

\* C18: a row with a price and a non-zero ema7 always gets a Signal, never an
\* error; without rsi6 it gets `wait`; without volume or ma5_volume it never
\* gets `long`; without macd_hist and macd_line it gets `wait`.
C18_AbsentFailsTheCondition ==
    signal_pc # "call" =>
        /\ (Has("price") /\ Has("ema7") /\ Val("ema7") # Zero) =>
              (signal_pc = "returned" /\ signal_raised = "" /\ signal # None)
        /\ (signal_pc = "returned" /\ ~Has("rsi6")) => ReturnedWait
        /\ (signal_pc = "returned" /\ (~Has("volume") \/ ~Has("ma5_volume"))) =>
              Get(signal).action # "long"
        /\ (signal_pc = "returned" /\ ~Has("macd_hist") /\ ~Has("macd_line")) =>
              ReturnedWait

\* C18 witness: a row that satisfies the long rule but for its absent rsi6 gave
\* `wait`.
C18_Witness ==
    /\ ReturnedWait
    /\ ~Has("rsi6")
    /\ signal_row.price = Number(201, 2)
    /\ signal_row.ema7 = Number(100, 1)
    /\ signal_row.macd_hist = Number(1, 1)
    /\ signal_row.volume = Number(2, 1)
    /\ signal_row.ma5_volume = Number(1, 1)

\* A call leaves the row as it was.
C19_RowUntouched == [][signal_pc = "call" => signal_row' = signal_row]_vars

\* A call on the row of the first call, made after a call on another row, gives
\* what the first call gave.
C19_SameSignalAgain ==
    (signal_calls = 3 /\ signal_pc # "call") =>
        /\ signal_pc = "returned"
        /\ signal_row = Get(first_signal).row
        /\ signal = Get(first_signal).signal

MaxCycles == 3
MaxFetched == 3

SNAPSHOT_KEYS ==
    <<"symbol", "timeframe", "timestamp", "candle_time", "signal", "stale", "error",
      "last_fetch_status", "last_success_at", "source">>

\* mapping.get(key, default)
DictGet(mapping, key, default) ==
    IF key \in DOMAIN mapping THEN mapping[key] ELSE default

\* A value of a field that is not of the field's own type (a signal that is
\* not a mapping, a stale flag that is not a bool): its Python type and its
\* truth value.  None has length 0, a value of the field's type length 1.
Other(type, truthy) == <<type, truthy>>

\* normalize_snapshot keeping whatever signal and stale the payload has.
NormalizeSnapshotLoose(mapping) ==
    LET payload == mapping
        normalized ==
            [symbol |-> DictGet(payload, "symbol", None),
             timeframe |-> DictGet(payload, "timeframe", None),
             timestamp |-> DictGet(payload, "timestamp", None),
             candle_time |-> DictGet(payload, "candle_time", None),
             signal |-> DictGet(payload, "signal", None),
             stale |-> DictGet(payload, "stale", Some(TRUE)),
             error |-> DictGet(payload, "error", None),
             last_fetch_status |-> DictGet(payload, "last_fetch_status", Some("unknown")),
             last_success_at |-> DictGet(payload, "last_success_at", None),
             source |-> DictGet(payload, "source", None)]
    IN [key \in Range(SNAPSHOT_KEYS) |-> normalized[key]]

\* snapshot.py 22-49.  `snapshot or {}`: None and the empty dict are both <<>>.
\* Lines 25-27 and 42: a signal that is not a mapping becomes None.  Lines
\* 29-35: a bool stays, None becomes True, anything else its truth value.
normalize_snapshot(mapping) ==
    LET payload == mapping
        signal_value == DictGet(payload, "signal", None)
        stale_value == DictGet(payload, "stale", None)
        stale == IF Len(stale_value) = 1 THEN stale_value
                 ELSE IF Len(stale_value) = 0 THEN Some(TRUE)
                 ELSE Some(stale_value[2])
        normalized ==
            [symbol |-> DictGet(payload, "symbol", None),
             timeframe |-> DictGet(payload, "timeframe", None),
             timestamp |-> DictGet(payload, "timestamp", None),
             candle_time |-> DictGet(payload, "candle_time", None),
             signal |-> IF Len(signal_value) = 1 THEN signal_value ELSE None,
             stale |-> stale,
             error |-> DictGet(payload, "error", None),
             last_fetch_status |-> DictGet(payload, "last_fetch_status", Some("unknown")),
             last_success_at |-> DictGet(payload, "last_success_at", None),
             source |-> DictGet(payload, "source", None)]
    IN [key \in Range(SNAPSHOT_KEYS) |-> normalized[key]]

\* config.py 29-31: the defaults of Settings the worker reads.
settings == [symbol |-> "BTC/USDT", timeframe |-> "4h", exchange_id |-> "binance"]

\* worker.py 72: f"ccxt:{self.settings.exchange_id}"
source == "ccxt:binance"

\* Python's `a or b` on an optional string.
PyOr(a, b) == IF a = None \/ a = Some("") THEN b ELSE a

\* The dicts signal_fn returns.
WorkerSignals == {[action |-> a] : a \in {"long", "short", "wait"}}

\* The snapshot the failure test stores before the cycle: published at time 1
\* for the candle of time 0.
TestPrevious ==
    normalize_snapshot([symbol |-> Some("BTC/USDT"),
                        timeframe |-> Some("4h"),
                        timestamp |-> Some(1),
                        candle_time |-> Some(0),
                        signal |-> Some([action |-> "short"]),
                        stale |-> Some(FALSE),
                        error |-> None,
                        last_fetch_status |-> Some("ok"),
                        last_success_at |-> Some(1),
                        source |-> Some("ccxt:binance")])

\* The index of a fetched frame of n candles at time t: the last candle is the
\* one still forming at t.
CandleTimes(t, n) == [k \in 1..n |-> t - n + k]

\* The locals of run_once before a cycle.
NoCycle ==
    /\ raw_candles = None
    /\ closed_candles = None
    /\ latest_signal = None
    /\ candle_time = None
    /\ exc = ""
    /\ failed_step = ""
    /\ previous = None
    /\ returned = None

\* The history a store starts with: the snapshot in it was written by a
\* successful cycle at the snapshot's timestamp.
HistoryOf(snapshot) ==
    [cycle |-> Some([time |-> Get(snapshot.timestamp), ok |-> TRUE]),
     success |-> Some([time |-> Get(snapshot.timestamp), signal |-> snapshot.signal,
                       candle_time |-> snapshot.candle_time])]

\* The history after the cycle under way has ended with a written snapshot
\* (line 104), and after it has ended in the except clause (lines 105-134).
CycleSucceeded ==
    [cycle |-> Some([time |-> now_iso, ok |-> TRUE]),
     success |-> Some([time |-> now_iso, signal |-> latest_signal,
                       candle_time |-> candle_time])]

CycleFailed == [cycle_history EXCEPT !.cycle = Some([time |-> now_iso, ok |-> FALSE])]

\* A worker built on an empty store, or on the store of the failure test.
InitWorker ==
    /\ store \in {None, Some(TestPrevious)}
    /\ store_up \in BOOLEAN
    /\ clock = 1
    /\ now_iso = 0
    /\ NoCycle
    /\ worker_pc = "idle"
    /\ computed_signals = IF store = None THEN {} ELSE {Get(Get(store).signal)}
    /\ cycle_history = IF store = None THEN [cycle |-> None, success |-> None]
                       ELSE HistoryOf(Get(store))
    /\ BacktestNotCalled
    /\ LevelsNotCalled
    /\ SignalNotCalled
    /\ StoreNotCalled
    /\ ServiceNotCalled
    /\ NormalizeNotCalled
    /\ IndicatorsNotCalled
    /\ MetricsNotCalled

\* Lines 69-72: a call of run_once, by a test or by run_forever (line 141)
\* after the previous call returned.
RunOnce ==
    /\ worker_pc \in {"idle", "returned"}
    /\ clock <= MaxCycles
    /\ clock' = clock + 1
    /\ now_iso' = clock + 1
    /\ raw_candles' = None
    /\ closed_candles' = None
    /\ latest_signal' = None
    /\ candle_time' = None
    /\ exc' = ""
    /\ failed_step' = ""
    /\ previous' = None
    /\ returned' = None
    /\ worker_pc' = "fetch"
    /\ UNCHANGED <<store, store_up, computed_signals, cycle_history, outside_worker>>

\* Fetch keeping the last candle of every frame.
FetchKeepingLast ==
    /\ worker_pc = "fetch"
    /\ \/ /\ exc' = "exchange timeout"
          /\ failed_step' = "fetch"
          /\ worker_pc' = "failed"
          /\ UNCHANGED <<raw_candles, closed_candles>>
       \/ \E n \in 0..MaxFetched :
            LET raw == CandleTimes(now_iso, n)
                closed == raw
            IN /\ raw_candles' = Some(raw)
               /\ IF closed = <<>>
                  THEN /\ exc' = "No closed candles available"
                       /\ failed_step' = "fetch"
                       /\ worker_pc' = "failed"
                       /\ UNCHANGED closed_candles
                  ELSE /\ closed_candles' = Some(closed)
                       /\ worker_pc' = "compute"
                       /\ UNCHANGED <<exc, failed_step>>
    /\ UNCHANGED <<store, store_up, clock, now_iso, latest_signal, candle_time, previous,
                   returned, computed_signals, cycle_history, outside_worker>>

\* Lines 75-83: fetch_fn raises, or returns a frame whose last candle is dropped
\* when it has more than one.
Fetch ==
    /\ worker_pc = "fetch"
    /\ \/ /\ exc' = "exchange timeout"
          /\ failed_step' = "fetch"
          /\ worker_pc' = "failed"
          /\ UNCHANGED <<raw_candles, closed_candles>>
       \/ \E n \in 0..MaxFetched :
            LET raw == CandleTimes(now_iso, n)
                closed == IF Len(raw) > 1 THEN SubSeq(raw, 1, Len(raw) - 1) ELSE raw
            IN /\ raw_candles' = Some(raw)
               /\ IF closed = <<>>
                  THEN /\ exc' = "No closed candles available"
                       /\ failed_step' = "fetch"
                       /\ worker_pc' = "failed"
                       /\ UNCHANGED closed_candles
                  ELSE /\ closed_candles' = Some(closed)
                       /\ worker_pc' = "compute"
                       /\ UNCHANGED <<exc, failed_step>>
    /\ UNCHANGED <<store, store_up, clock, now_iso, latest_signal, candle_time, previous,
                   returned, computed_signals, cycle_history, outside_worker>>

\* Lines 85-87: prepare_fn or signal_fn raises, or the signal of the last closed
\* candle is computed.
Compute ==
    /\ worker_pc = "compute"
    /\ \/ /\ exc' = "compute failed"
          /\ failed_step' = "compute"
          /\ worker_pc' = "failed"
          /\ UNCHANGED <<latest_signal, candle_time>>
       \/ \E sig \in WorkerSignals :
            LET prepared == Get(closed_candles)
            IN /\ latest_signal' = Some(sig)
               /\ candle_time' = Some(prepared[Len(prepared)])
               /\ worker_pc' = "persist"
               /\ UNCHANGED <<exc, failed_step>>
    /\ UNCHANGED <<store, store_up, clock, now_iso, raw_candles, closed_candles, previous,
                   returned, computed_signals, cycle_history, outside_worker>>

\* Lines 89-104: the snapshot of a successful cycle is written and returned; a
\* write that raises is caught by the except clause of line 105.
Persist ==
    /\ worker_pc = "persist"
    /\ LET snapshot ==
             normalize_snapshot([symbol |-> Some(settings.symbol),
                                 timeframe |-> Some(settings.timeframe),
                                 timestamp |-> Some(now_iso),
                                 candle_time |-> candle_time,
                                 signal |-> latest_signal,
                                 stale |-> Some(FALSE),
                                 error |-> None,
                                 last_fetch_status |-> Some("ok"),
                                 last_success_at |-> Some(now_iso),
                                 source |-> Some(source)])
       IN IF store_up
          THEN /\ store' = Some(snapshot)
               /\ returned' = Some(snapshot)
               /\ worker_pc' = "returned"
               /\ computed_signals' = computed_signals \cup {Get(latest_signal)}
               /\ cycle_history' = CycleSucceeded
               /\ UNCHANGED <<exc, failed_step>>
          ELSE /\ exc' = "store write failed"
               /\ failed_step' = "persist"
               /\ worker_pc' = "failed"
               /\ UNCHANGED <<store, returned, computed_signals, cycle_history>>
    /\ UNCHANGED <<store_up, clock, now_iso, raw_candles, closed_candles, latest_signal,
                   candle_time, previous, outside_worker>>

\* ReadPrevious making up a previous snapshot when the store has none.
ReadPreviousSynthetic ==
    /\ worker_pc = "failed"
    /\ IF ~store_up
       THEN /\ worker_pc' = "returned"
            /\ UNCHANGED previous
       ELSE /\ previous' = IF store = None THEN Some(normalize_snapshot(None)) ELSE store
            /\ worker_pc' = "republish"
    /\ cycle_history' = IF worker_pc' = "returned" THEN CycleFailed ELSE cycle_history
    /\ returned' = None
    /\ UNCHANGED <<store, store_up, clock, now_iso, raw_candles, closed_candles,
                   latest_signal, candle_time, exc, failed_step, computed_signals,
                   outside_worker>>

\* Lines 105-116: the handler reads the previous snapshot; a read that raises,
\* or an empty store, ends the call with None.
ReadPrevious ==
    /\ worker_pc = "failed"
    /\ IF ~store_up
       THEN /\ worker_pc' = "returned"
            /\ UNCHANGED previous
       ELSE /\ previous' = store
            /\ worker_pc' = IF store = None THEN "returned" ELSE "republish"
    /\ cycle_history' = IF worker_pc' = "returned" THEN CycleFailed ELSE cycle_history
    /\ returned' = None
    /\ UNCHANGED <<store, store_up, clock, now_iso, raw_candles, closed_candles,
                   latest_signal, candle_time, exc, failed_step, computed_signals,
                   outside_worker>>

\* Republish leaving the timestamp of the previous snapshot in place.
RepublishKeepingTimestamp ==
    /\ worker_pc = "republish"
    /\ LET prev == normalize_snapshot(Get(previous))
           stale_snapshot ==
             normalize_snapshot([symbol |-> PyOr(prev.symbol, Some(settings.symbol)),
                                 timeframe |-> PyOr(prev.timeframe, Some(settings.timeframe)),
                                 timestamp |-> prev.timestamp,
                                 candle_time |-> prev.candle_time,
                                 signal |-> prev.signal,
                                 stale |-> Some(TRUE),
                                 error |-> Some(exc),
                                 last_fetch_status |-> Some("failed"),
                                 last_success_at |-> prev.last_success_at,
                                 source |-> PyOr(prev.source, Some(source))])
       IN IF store_up
          THEN /\ store' = Some(stale_snapshot)
               /\ returned' = Some(stale_snapshot)
               /\ worker_pc' = "returned"
          ELSE /\ worker_pc' = "raised"
               /\ UNCHANGED <<store, returned>>
    /\ cycle_history' = CycleFailed
    /\ UNCHANGED <<store_up, clock, now_iso, raw_candles, closed_candles, latest_signal,
                   candle_time, exc, failed_step, previous, computed_signals,
                   outside_worker>>

\* Republish counting the failed cycle as the last success.
RepublishAsSuccess ==
    /\ worker_pc = "republish"
    /\ LET prev == normalize_snapshot(Get(previous))
           stale_snapshot ==
             normalize_snapshot([symbol |-> PyOr(prev.symbol, Some(settings.symbol)),
                                 timeframe |-> PyOr(prev.timeframe, Some(settings.timeframe)),
                                 timestamp |-> Some(now_iso),
                                 candle_time |-> prev.candle_time,
                                 signal |-> prev.signal,
                                 stale |-> Some(TRUE),
                                 error |-> Some(exc),
                                 last_fetch_status |-> Some("failed"),
                                 last_success_at |-> Some(now_iso),
                                 source |-> PyOr(prev.source, Some(source))])
       IN IF store_up
          THEN /\ store' = Some(stale_snapshot)
               /\ returned' = Some(stale_snapshot)
               /\ worker_pc' = "returned"
          ELSE /\ worker_pc' = "raised"
               /\ UNCHANGED <<store, returned>>
    /\ cycle_history' = CycleFailed
    /\ UNCHANGED <<store_up, clock, now_iso, raw_candles, closed_candles, latest_signal,
                   candle_time, exc, failed_step, previous, computed_signals,
                   outside_worker>>

\* Lines 118-134: the previous snapshot is written again as stale and returned;
\* a write that raises here is not caught and ends run_once with its exception.
Republish ==
    /\ worker_pc = "republish"
    /\ LET prev == normalize_snapshot(Get(previous))
           stale_snapshot ==
             normalize_snapshot([symbol |-> PyOr(prev.symbol, Some(settings.symbol)),
                                 timeframe |-> PyOr(prev.timeframe, Some(settings.timeframe)),
                                 timestamp |-> Some(now_iso),
                                 candle_time |-> prev.candle_time,
                                 signal |-> prev.signal,
                                 stale |-> Some(TRUE),
                                 error |-> Some(exc),
                                 last_fetch_status |-> Some("failed"),
                                 last_success_at |-> prev.last_success_at,
                                 source |-> PyOr(prev.source, Some(source))])
       IN IF store_up
          THEN /\ store' = Some(stale_snapshot)
               /\ returned' = Some(stale_snapshot)
               /\ worker_pc' = "returned"
          ELSE /\ worker_pc' = "raised"
               /\ UNCHANGED <<store, returned>>
    /\ cycle_history' = CycleFailed
    /\ UNCHANGED <<store_up, clock, now_iso, raw_candles, closed_candles, latest_signal,
                   candle_time, exc, failed_step, previous, computed_signals,
                   outside_worker>>

\* The store (its file, its Redis server) starts or stops answering.
StoreFault ==
    /\ worker_pc # "none"
    /\ store_up' = ~store_up
    /\ UNCHANGED <<store, clock, now_iso, raw_candles, closed_candles, latest_signal,
                   candle_time, exc, failed_step, previous, returned, worker_pc,
                   computed_signals, cycle_history, outside_worker>>

NextWorker ==
    \/ RunOnce
    \/ Fetch
    \/ Compute
    \/ Persist
    \/ ReadPrevious
    \/ Republish
    \/ StoreFault

SpecWorker == InitWorker /\ [][NextWorker]_vars

\* ---- C20 ----
\* The handler has a previous snapshot whenever the store holds one and
\* answers the read.
C20_PreviousIsRead ==
    [][(/\ worker_pc = "failed"
        /\ worker_pc' # "failed"
        /\ failed_step \in {"fetch", "compute"}
        /\ store # None
        /\ store_up)
       => (worker_pc' = "republish" /\ store' = store)]_vars

\* The handler's write stores, and run_once returns, the previous snapshot
\* marked stale.
C20_StaleSnapshot ==
    [][(/\ worker_pc = "republish"
        /\ worker_pc' # "republish"
        /\ failed_step \in {"fetch", "compute"}
        /\ store_up)
       => /\ store # None
          /\ worker_pc' = "returned"
          /\ returned' # None
          /\ store' = returned'
          /\ LET new == Get(returned')
                 old == Get(store)
             IN /\ new.stale = Some(TRUE)
                /\ new.last_fetch_status = Some("failed")
                /\ new.error = Some(exc)
                /\ exc \in {"exchange timeout", "No closed candles available",
                            "compute failed"}
                /\ new.timestamp = Some(clock)
                /\ new.signal = old.signal
                /\ new.candle_time = old.candle_time
                /\ new.last_success_at = old.last_success_at]_vars

C21_NoOpWithoutPrevious ==
    [][(worker_pc = "failed" /\ worker_pc' # "failed" /\ store = None)
       => (worker_pc' = "returned" /\ returned' = None /\ store' = None)]_vars

\* As long as no cycle has succeeded, a store that was empty is empty.
C21_EmptyUntilSuccess == computed_signals = {} => store = None

\* The signal of a stored snapshot is one a successful cycle published.
C21_StoredSignalWasComputed ==
    store # None =>
        /\ Get(store).signal # None
        /\ Get(Get(store).signal) \in computed_signals

\* C21: the worker never publishes a synthetic signal: a failed cycle with no
\* previous snapshot stored returns nothing and writes nothing, so the store
\* stays empty through any number of failing cycles, and the signal of a stored
\* snapshot is always one that a successful cycle computed.
C21_NeverSynthetic ==
    /\ C21_NoOpWithoutPrevious
    /\ [](C21_EmptyUntilSuccess /\ C21_StoredSignalWasComputed)

\* The second of two failing cycles on an empty store has returned None.
C21_Witness ==
    /\ worker_pc = "returned"
    /\ clock = 3
    /\ failed_step = "compute"
    /\ computed_signals = {}
    /\ store_up
    /\ store = None
    /\ returned = None

\* ---- C22 ----
\* run_once has returned the snapshot of a successful cycle.
C22_Succeeded == worker_pc = "returned" /\ failed_step = "" /\ returned # None

AllButLast(candles) == SubSeq(candles, 1, Len(candles) - 1)

\* The published snapshot is fresh and carries the time of the last candle
\* that was passed to the computation.
C22_Published ==
    LET passed == Get(closed_candles)
        snapshot == Get(returned)
    IN /\ store = returned
       /\ snapshot.candle_time = Some(passed[Len(passed)])
       /\ snapshot.signal = latest_signal
       /\ snapshot.stale = Some(FALSE)
       /\ snapshot.last_fetch_status = Some("ok")

\* C22 as stated: every successful cycle computes from all fetched candles
\* except the last one.
C22_AlwaysDropsLast ==
    C22_Succeeded =>
        /\ closed_candles = Some(AllButLast(Get(raw_candles)))
        /\ C22_Published

\* C22, amended: a successful cycle that fetched more than one candle computes
\* from all fetched candles except the last (still-forming) one, a cycle that
\* fetched exactly one candle computes from that candle; the published
\* snapshot's candle_time is the time of the last candle passed to the
\* computation, with stale = false and last_fetch_status = ok.
C22_DropsLastOfSeveral ==
    C22_Succeeded =>
        /\ Len(Get(raw_candles)) > 1
              => closed_candles = Some(AllButLast(Get(raw_candles)))
        /\ Len(Get(raw_candles)) = 1 => closed_candles = raw_candles
        /\ C22_Published

\* The test's cycle: three candles fetched, two passed on, the snapshot carries
\* the time of the second.
C22_Witness ==
    /\ C22_Succeeded
    /\ Len(Get(raw_candles)) = 3
    /\ Len(Get(closed_candles)) = 2
    /\ Get(returned).candle_time = Some(clock - 1)


\* ---- SignalWorker.run_forever (worker.py 136-142) ----
\* Line 141: the loop calls run_once.
CallRunOnce ==
    /\ worker_pc = "idle"
    /\ RunOnce

\* Line 142: run_once has returned and the loop sleeps for the interval, then
\* is back at the top of the loop.  A run_once that raised never gets here:
\* the loop has no handler and the exception ends run_forever.
Sleep ==
    /\ worker_pc = "returned"
    /\ worker_pc' = "idle"
    /\ UNCHANGED <<store, store_up, clock, now_iso, raw_candles, closed_candles,
                   latest_signal, candle_time, exc, failed_step, previous, returned,
                   computed_signals, cycle_history, outside_worker>>

\* The steps of the worker's own thread.
WorkerStep ==
    \/ CallRunOnce
    \/ Fetch
    \/ Compute
    \/ Persist
    \/ ReadPrevious
    \/ Republish
    \/ Sleep

NextForever ==
    \/ WorkerStep
    \/ StoreFault

SpecForever == InitWorker /\ [][NextForever]_vars

\* The worker's thread is never suspended for ever; the store may fail and
\* recover at any time, or never.
FairForever == SpecForever /\ WF_vars(WorkerStep)

\* ---- C23 ----
\* A new cycle starts only from the top of the loop, which is reached only by
\* the sleep that follows the return of the previous run_once.
C23_CyclesDoNotOverlap ==
    [][/\ clock' # clock => (worker_pc = "idle" /\ worker_pc' = "fetch")
       /\ (worker_pc # "idle" /\ worker_pc' = "idle") => worker_pc = "returned"]_vars

\* C23: the loop runs on after every cycle: whether the cycle completed or
\* failed at fetch, compute or persist, run_once returns, the loop sleeps and
\* is back at the top for the next cycle; no failure inside a cycle ends the
\* loop.
C23_LoopNeverEnds ==
    /\ C23_CyclesDoNotOverlap
    /\ (worker_pc = "fetch") ~> (worker_pc = "idle")
    /\ [](worker_pc # "raised")

\* A cycle failed at persist, the handler read the previous snapshot back, and
\* its own write raised: the exception has left run_once and run_forever.
C23_LoopEnded ==
    /\ worker_pc = "raised"
    /\ failed_step = "persist"
    /\ previous # None
    /\ ~store_up


\* ======================================================================
\* The snapshot stores (src/src/cryptoinvest/store.py): a
\* CompositeSnapshotStore over a FileSnapshotStore and, when configured, a
\* RedisSnapshotStore.  One thread writes (the worker) and one reads (the
\* API).  The n-th write is given snapshot n.  The text of a snapshot is a
\* sequence of pieces; the file holds the pieces that have reached it, the
\* Redis key is set to a whole text at once.  The file system does not fail;
\* the Redis client answers or raises.
\* ======================================================================

\* ---- bound of the store model ----
MaxWrites == 3

WrittenSnapshots == 1..MaxWrites

\* json.dumps / json.dump: the text of a snapshot.
Dumps(n) == <<"{", ToString(n), "}">>

\* json.loads / json.load: the snapshot of a whole text, JSONDecodeError on an
\* empty or unfinished one.
Loads(text) ==
    IF /\ Len(text) = 3
       /\ text[1] = "{"
       /\ text[3] = "}"
       /\ \E n \in WrittenSnapshots : ToString(n) = text[2]
    THEN Returns(CHOOSE n \in WrittenSnapshots : ToString(n) = text[2])
    ELSE Raises("JSONDecodeError")

\* A composite store over a file that does not exist yet, with or without
\* Redis.
InitStore ==
    /\ redis_configured \in BOOLEAN
    /\ redis_up \in (IF redis_configured THEN BOOLEAN ELSE {FALSE})
    /\ redis_data = None
    /\ file_data = None
    /\ writer_pc = "idle"
    /\ writing = 0
    /\ writes = 0
    /\ last_written = None
    /\ reader_pc = "idle"
    /\ read_result = None
    /\ read_old = None
    /\ BacktestNotCalled
    /\ LevelsNotCalled
    /\ SignalNotCalled
    /\ WorkerNotCalled
    /\ ServiceNotCalled
    /\ NormalizeNotCalled
    /\ IndicatorsNotCalled
    /\ MetricsNotCalled

\* Lines 108-109: a call of CompositeSnapshotStore.write.
Write ==
    /\ writer_pc \in {"idle", "returned"}
    /\ writes < MaxWrites
    /\ writes' = writes + 1
    /\ writing' = writes + 1
    /\ writer_pc' = IF redis_configured THEN "redis_write" ELSE "file_open"
    /\ UNCHANGED <<redis_configured, redis_up, redis_data, file_data, last_written,
                   reader_pc, read_result, read_old, outside_store>>

\* RedisWrite letting the exception of the Redis client out of write.
RedisWriteRaising ==
    /\ writer_pc = "redis_write"
    /\ IF redis_up
       THEN /\ redis_data' = Some(Dumps(writing))
            /\ writer_pc' = "file_open"
       ELSE /\ writer_pc' = "raised"
            /\ UNCHANGED redis_data
    /\ UNCHANGED <<redis_configured, redis_up, file_data, writing, writes, last_written,
                   reader_pc, read_result, read_old, outside_store>>

\* Lines 110-113 and 79-81: the key is set to the whole text; an exception of
\* the client is logged and dropped.
RedisWrite ==
    /\ writer_pc = "redis_write"
    /\ IF redis_up
       THEN redis_data' = Some(Dumps(writing))
       ELSE UNCHANGED redis_data
    /\ writer_pc' = "file_open"
    /\ UNCHANGED <<redis_configured, redis_up, file_data, writing, writes, last_written,
                   reader_pc, read_result, read_old, outside_store>>

\* Lines 114 and 40-41: open(path, "w") creates the file or truncates it.
FileOpen ==
    /\ writer_pc = "file_open"
    /\ file_data' = Some(<<>>)
    /\ writer_pc' = "file_dump"
    /\ UNCHANGED <<redis_configured, redis_up, redis_data, writing, writes, last_written,
                   reader_pc, read_result, read_old, outside_store>>

\* Line 42: json.dump writes the text to the handle; it reaches the file in one
\* piece or in several, the last when the handle is closed and write returns.
FileDump ==
    /\ writer_pc = "file_dump"
    /\ \E k \in (Len(Get(file_data)) + 1)..Len(Dumps(writing)) :
          /\ file_data' = Some(SubSeq(Dumps(writing), 1, k))
          /\ IF k = Len(Dumps(writing))
             THEN /\ writer_pc' = "returned"
                  /\ last_written' = Some(writing)
             ELSE UNCHANGED <<writer_pc, last_written>>
    /\ UNCHANGED <<redis_configured, redis_up, redis_data, writing, writes, reader_pc,
                   read_result, read_old, outside_store>>

\* Lines 98-99: a call of CompositeSnapshotStore.read.
Read ==
    /\ reader_pc \in {"idle", "returned", "raised"}
    /\ read_old' = last_written
    /\ read_result' = None
    /\ reader_pc' = IF redis_configured THEN "redis_read" ELSE "file_read"
    /\ UNCHANGED <<redis_configured, redis_up, redis_data, file_data, writer_pc, writing,
                   writes, last_written, outside_store>>

\* RedisRead letting the exception of the Redis client out of read.
RedisReadRaising ==
    /\ reader_pc = "redis_read"
    /\ IF redis_up /\ redis_data # None
       THEN /\ read_result' = Loads(Get(redis_data)).value
            /\ reader_pc' = "returned"
       ELSE /\ reader_pc' = IF redis_up THEN "file_read" ELSE "raised"
            /\ UNCHANGED read_result
    /\ UNCHANGED <<redis_configured, redis_up, redis_data, file_data, writer_pc, writing,
                   writes, last_written, read_old, outside_store>>

\* Lines 100-105 and 71-77: the value of the key is returned when the client
\* answers with one; with no value, or an exception, read goes on to the file.
RedisRead ==
    /\ reader_pc = "redis_read"
    /\ IF redis_up /\ redis_data # None
       THEN /\ read_result' = Loads(Get(redis_data)).value
            /\ reader_pc' = "returned"
       ELSE /\ reader_pc' = "file_read"
            /\ UNCHANGED read_result
    /\ UNCHANGED <<redis_configured, redis_up, redis_data, file_data, writer_pc, writing,
                   writes, last_written, read_old, outside_store>>

\* Lines 106 and 33-37: None when the file does not exist, else json.load of
\* its text, whose exception leaves read.
FileRead ==
    /\ reader_pc = "file_read"
    /\ IF file_data = None
       THEN /\ read_result' = None
            /\ reader_pc' = "returned"
       ELSE LET loaded == Loads(Get(file_data))
            IN /\ read_result' = loaded.value
               /\ reader_pc' = IF loaded.raised = "" THEN "returned" ELSE "raised"
    /\ UNCHANGED <<redis_configured, redis_up, redis_data, file_data, writer_pc, writing,
                   writes, last_written, read_old, outside_store>>

\* The Redis server goes away or comes back, keeping the value of the key.
RedisFault ==
    /\ redis_configured
    /\ redis_up' = ~redis_up
    /\ UNCHANGED <<redis_configured, redis_data, file_data, writer_pc, writing, writes,
                   last_written, reader_pc, read_result, read_old, outside_store>>

\* The API's read running while the worker writes.
NextStore ==
    \/ Write
    \/ RedisWrite
    \/ FileOpen
    \/ FileDump
    \/ Read
    \/ RedisRead
    \/ FileRead
    \/ RedisFault

SpecStore == InitStore /\ [][NextStore]_vars

\* One caller: an operation is called when no other is under way, and Redis
\* fails or recovers between operations.
NoOperation == writer_pc \in {"idle", "returned"} /\ reader_pc \in {"idle", "returned"}

WriteAlone == NoOperation /\ Write

ReadAlone == NoOperation /\ Read

RedisFaultBetween == NoOperation /\ RedisFault

NextStoreSeq ==
    \/ WriteAlone
    \/ RedisWrite
    \/ FileOpen
    \/ FileDump
    \/ ReadAlone
    \/ RedisRead
    \/ FileRead
    \/ RedisFaultBetween

SpecStoreSeq == InitStore /\ [][NextStoreSeq]_vars

\* ---- C24 ----
\* C24: a read that runs while a write is under way returns the complete old
\* snapshot or the complete new one: it never fails to parse, and what it
\* returns is what was last written when it was called or the snapshot of a
\* write begun since.
C24_ReadsAreAtomic ==
    /\ reader_pc # "raised"
    /\ reader_pc = "returned" =>
          \/ read_result = read_old
          \/ /\ read_result # None
             /\ Get(read_result) \in 1..writes
             /\ read_old # None => Get(read_result) > Get(read_old)

\* The reader met the file between open(path, "w") and the dump, while the
\* second write was under way: json.load failed on the empty file.
C24_ReadOfTruncatedFile ==
    /\ ~redis_configured
    /\ reader_pc = "raised"
    /\ writer_pc = "file_dump"
    /\ file_data = Some(<<>>)
    /\ read_old = Some(1)
    /\ writing = 2

\* ---- C25 ----
\* C25: with one caller and Redis failing and recovering between operations,
\* read returns the snapshot of the most recent write that returned, or
\* nothing when there was none.
C25_ReadsMostRecentWrite ==
    reader_pc = "returned" => read_result = last_written

\* The first write reached Redis and the file, the second only the file
\* because Redis was down; Redis is back and read returns the first snapshot.
C25_StaleRedisRead ==
    /\ reader_pc = "returned"
    /\ writer_pc = "returned"
    /\ read_result = Some(1)
    /\ last_written = Some(2)
    /\ file_data = Some(Dumps(2))
    /\ redis_data = Some(Dumps(1))
    /\ redis_up

\* ---- C26 ----
\* What a step of read does, by where it stands and what the stores hold.
C26_ReadStep ==
    /\ (reader_pc \in {"idle", "returned"} /\ reader_pc' \notin {"idle", "returned"})
          => reader_pc' = IF redis_configured THEN "redis_read" ELSE "file_read"
    /\ (reader_pc = "redis_read" /\ redis_up /\ redis_data # None)
          => /\ reader_pc' = "returned"
             /\ \A n \in WrittenSnapshots :
                   redis_data = Some(Dumps(n)) => read_result' = Some(n)
    /\ (reader_pc = "redis_read" /\ ~(redis_up /\ redis_data # None))
          => reader_pc' = "file_read"
    /\ reader_pc = "file_read"
          => /\ reader_pc' = "returned"
             /\ file_data = None => read_result' = None
             /\ \A n \in WrittenSnapshots :
                   file_data = Some(Dumps(n)) => read_result' = Some(n)

\* C26: read returns the Redis snapshot whenever a Redis store is configured,
\* its read succeeds and it holds a value; it returns the file store's snapshot
\* when no Redis store is configured, when the Redis read raises or when Redis
\* holds no value; a Redis read failure never reaches the caller.
C26_RedisFirstThenFile ==
    /\ [][reader_pc' # reader_pc => C26_ReadStep]_vars
    /\ [](reader_pc # "raised")

\* Redis holds the first snapshot and is down: read has returned the second
\* snapshot, from the file.
C26_Witness ==
    /\ reader_pc = "returned"
    /\ redis_configured
    /\ ~redis_up
    /\ redis_data = Some(Dumps(1))
    /\ file_data = Some(Dumps(2))
    /\ read_result = Some(2)

\* ---- C27 ----
\* C27: a composite write always writes the file, also when the Redis write
\* raises: when it has returned, the file store's read yields the snapshot it
\* was given, and no Redis failure reaches the caller.
C27_AlwaysWritesFile ==
    /\ writer_pc # "raised"
    /\ writer_pc = "returned" =>
          /\ file_data = Some(Dumps(writing))
          /\ Loads(Get(file_data)) = Returns(writing)
          /\ last_written = Some(writing)

\* The second write has returned with Redis down: the key still holds the
\* first snapshot, the file the second.
C27_Witness ==
    /\ writer_pc = "returned"
    /\ redis_configured
    /\ ~redis_up
    /\ writing = 2
    /\ redis_data = Some(Dumps(1))
    /\ file_data = Some(Dumps(2))


\* ======================================================================
\* Calls of normalize_snapshot (src/src/cryptoinvest/snapshot.py) on any
\* mapping.  Here a dict carries the order of its keys: [order, items].
\* ======================================================================

\* Marks a key the dict does not have.
MissingKey == <<"missing", "missing", "missing">>

SignalValues ==
    {MissingKey, None, Some([action |-> "long"]), Other("str", TRUE), Other("list", FALSE)}

StaleValues ==
    {MissingKey, None, Some(TRUE), Some(FALSE), Other("int", FALSE), Other("str", TRUE)}

StatusValues == {MissingKey, None, Some("ok"), Some("failed")}

ErrorValues == {MissingKey, None, Some("network timeout")}

SymbolValues == {MissingKey, None, Some("BTC/USDT")}

\* The keys a caller may give: those of a snapshot and one that is not.
GivenKeys == SNAPSHOT_KEYS \o <<"extra">>

Reverse(seq) == [k \in 1..Len(seq) |-> seq[Len(seq) + 1 - k]]

\* The dict with the keys of `fields` that are not marked missing, in the
\* order of `keys`.
DictOf(fields, keys) ==
    LET has(key) == Len(fields[key]) # Len(MissingKey)
    IN [order |-> SelectSeq(keys, has),
        items |-> [key \in {k \in DOMAIN fields : has(k)} |-> fields[key]]]

\* The mappings normalize_snapshot is called on; None is the empty dict.
SnapshotArgs ==
    {DictOf([symbol |-> symbol_value,
             timeframe |-> IF rest THEN Some("4h") ELSE MissingKey,
             timestamp |-> IF rest THEN Some(1) ELSE MissingKey,
             candle_time |-> IF rest THEN Some(0) ELSE MissingKey,
             signal |-> signal_value,
             stale |-> stale_value,
             error |-> error_value,
             last_fetch_status |-> status_value,
             last_success_at |-> IF rest THEN None ELSE MissingKey,
             source |-> IF rest THEN Some("ccxt:binance") ELSE MissingKey,
             extra |-> IF extra THEN Some("x") ELSE MissingKey],
            IF reversed THEN Reverse(GivenKeys) ELSE GivenKeys) :
        symbol_value \in SymbolValues, signal_value \in SignalValues,
        stale_value \in StaleValues, error_value \in ErrorValues,
        status_value \in StatusValues, rest \in BOOLEAN, extra \in BOOLEAN,
        reversed \in BOOLEAN}

\* normalize_snapshot returning its dict in the order of the payload's keys.
NormalizeInPayloadOrder(arg) ==
    [order |-> arg.order, items |-> normalize_snapshot(arg.items)]

\* snapshot.py 22-49 on a dict with its key order: line 49 builds the result
\* key by key in the order of SNAPSHOT_KEYS.
normalize_ordered(arg) ==
    [order |-> SNAPSHOT_KEYS, items |-> normalize_snapshot(arg.items)]

InitNormalize ==
    /\ snapshot_arg \in SnapshotArgs
    /\ normalized_once = None
    /\ normalized_again = None
    /\ normalize_pc = "call"
    /\ BacktestNotCalled
    /\ LevelsNotCalled
    /\ SignalNotCalled
    /\ WorkerNotCalled
    /\ StoreNotCalled
    /\ ServiceNotCalled
    /\ IndicatorsNotCalled
    /\ MetricsNotCalled

\* normalize_snapshot(snapshot)
Normalize ==
    /\ normalize_pc = "call"
    /\ normalized_once' = Some(normalize_ordered(snapshot_arg))
    /\ normalize_pc' = "once"
    /\ UNCHANGED <<snapshot_arg, normalized_again, outside_normalize>>

\* normalize_snapshot of the dict the first call returned.
NormalizeAgain ==
    /\ normalize_pc = "once"
    /\ normalized_again' = Some(normalize_ordered(Get(normalized_once)))
    /\ normalize_pc' = "twice"
    /\ UNCHANGED <<snapshot_arg, normalized_once, outside_normalize>>

NextNormalize ==
    \/ Normalize
    \/ NormalizeAgain

SpecNormalize == InitNormalize /\ [][NextNormalize]_vars

\* ---- C28 ----
\* The fixed shape of a normalized snapshot.
C28_Shape(dict) ==
    /\ dict.order = <<"symbol", "timeframe", "timestamp", "candle_time", "signal",
                      "stale", "error", "last_fetch_status", "last_success_at", "source">>
    /\ DOMAIN dict.items = {dict.order[k] : k \in 1..Len(dict.order)}
    /\ Len(dict.items.stale) = 1
    /\ dict.items.stale[1] \in BOOLEAN
    /\ Len(dict.items.signal) <= 1

\* C28: normalize_snapshot is idempotent and its result has a fixed shape:
\* exactly the ten keys of a snapshot in their order, stale a boolean and
\* signal a mapping or absent, for every mapping given (or None).
C28_IdempotentFixedShape ==
    /\ normalize_pc \in {"once", "twice"} => C28_Shape(Get(normalized_once))
    /\ normalize_pc = "twice" => normalized_again = normalized_once

\* A dict in reverse key order, with a key that is not a snapshot's, without
\* last_fetch_status and one more key, whose signal is a string and whose
\* stale flag is 0, has been normalized twice.
C28_Witness ==
    /\ normalize_pc = "twice"
    /\ Len(snapshot_arg.order) = 9
    /\ snapshot_arg.order[1] = "extra"
    /\ "last_fetch_status" \notin DOMAIN snapshot_arg.items
    /\ Len(snapshot_arg.items.signal) = 2
    /\ snapshot_arg.items.signal = Other("str", TRUE)
    /\ Len(snapshot_arg.items.stale) = 2
    /\ snapshot_arg.items.stale = Other("int", FALSE)
    /\ Get(normalized_again).items.signal = None
    /\ Get(normalized_again).items.stale = Some(FALSE)
    /\ Get(normalized_again).items.last_fetch_status = Some("unknown")


\* ======================================================================
\* The read API (src/src/cryptoinvest/service.py): GET /signal, served from
\* the store the worker writes.
\* ======================================================================

\* The stale snapshot of the API's test.
TestStale ==
    normalize_snapshot([symbol |-> Some("BTC/USDT"),
                        timeframe |-> Some("4h"),
                        timestamp |-> Some(1),
                        candle_time |-> Some(1),
                        signal |-> Some([action |-> "long"]),
                        stale |-> Some(TRUE),
                        error |-> Some("network timeout"),
                        last_fetch_status |-> Some("failed"),
                        last_success_at |-> Some(0),
                        source |-> Some("ccxt:binance")])

\* A dict that is not normalized: the one the store's test writes.
TestPartial == [symbol |-> Some("BTC/USDT"), signal |-> Some([action |-> "wait"])]

\* An app over a store that is empty or holds a fresh, a stale or a partial
\* snapshot, next to a worker that has not run yet.
InitService ==
    /\ store \in {None, Some(TestPrevious), Some(TestStale), Some(TestPartial)}
    /\ store_up \in BOOLEAN
    /\ clock = 1
    /\ now_iso = 0
    /\ NoCycle
    /\ worker_pc = "idle"
    /\ computed_signals = {}
    /\ cycle_history = [cycle |-> None, success |-> None]
    /\ service_pc = "idle"
    /\ response = None
    /\ BacktestNotCalled
    /\ LevelsNotCalled
    /\ SignalNotCalled
    /\ StoreNotCalled
    /\ NormalizeNotCalled
    /\ IndicatorsNotCalled
    /\ MetricsNotCalled

\* Lines 48-49: a request GET /signal arrives.
GetSignal ==
    /\ service_pc = "idle"
    /\ service_pc' = "signal"
    /\ response' = None
    /\ UNCHANGED <<worker_vars, outside_service>>

\* Respond answering 503 for a stale snapshot.
RespondFreshOnly ==
    /\ service_pc = "signal"
    /\ LET snapshot == IF store_up THEN store ELSE None
       IN response' =
            IF snapshot = None \/ normalize_snapshot(Get(snapshot)).stale = Some(TRUE)
            THEN Some([status |-> 503, body |-> None])
            ELSE Some([status |-> 200, body |-> Some(normalize_snapshot(Get(snapshot)))])
    /\ service_pc' = "idle"
    /\ UNCHANGED <<worker_vars, outside_service>>

\* Lines 30-37 and 50-56: _read_snapshot turns an exception of store.read()
\* into None; None is answered with 503, a snapshot with 200 and its
\* normalized dict.
Respond ==
    /\ service_pc = "signal"
    /\ LET snapshot == IF store_up THEN store ELSE None
       IN response' =
            IF snapshot = None
            THEN Some([status |-> 503, body |-> None])
            ELSE Some([status |-> 200, body |-> Some(normalize_snapshot(Get(snapshot)))])
    /\ service_pc' = "idle"
    /\ UNCHANGED <<worker_vars, outside_service>>

\* The API answering while the worker runs its cycles.
NextService ==
    \/ GetSignal
    \/ Respond
    \/ RunOnce
    \/ Fetch
    \/ Compute
    \/ Persist
    \/ ReadPrevious
    \/ Republish
    \/ StoreFault

SpecService == InitService /\ [][NextService]_vars

\* ---- C29 ----
\* The body of a 200 answer is the stored snapshot, normalized: the ten keys,
\* the stored value under every key the stored dict has, and the stored dict
\* itself when it has them all.
C29_BodyOf(body, stored) ==
    /\ DOMAIN body = Range(SNAPSHOT_KEYS)
    /\ \A key \in DOMAIN stored : body[key] = stored[key]
    /\ DOMAIN stored = Range(SNAPSHOT_KEYS) => body = stored
    /\ Len(body.stale) = 1

\* C29: GET /signal answers 503 exactly when the store yields no snapshot (it
\* is empty or its read raises), and otherwise 200 with the normalized stored
\* snapshot, a stale one included; it never modifies the store.
C29_SignalEndpoint ==
    [][(service_pc = "signal" /\ service_pc' = "idle")
       => /\ store' = store
          /\ response' # None
          /\ Get(response').status \in {200, 503}
          /\ Get(response').status = 503 <=> (store = None \/ ~store_up)
          /\ Get(response').status = 503 => Get(response').body = None
          /\ Get(response').status = 200
                => /\ Get(response').body # None
                   /\ C29_BodyOf(Get(Get(response').body), Get(store))]_vars

\* The stale snapshot that the worker republished at time 3 has been served
\* with 200.
C29_Witness ==
    /\ service_pc = "idle"
    /\ response # None
    /\ Get(response).status = 200
    /\ Get(response).body = store
    /\ Get(Get(response).body).stale = Some(TRUE)
    /\ Get(Get(response).body).last_fetch_status = Some("failed")
    /\ Get(Get(response).body).timestamp = Some(3)


\* ======================================================================
\* The indicator functions (src/src/cryptoinvest/indicators.py).  A series
\* is a sequence of exact rationals; NaN marks a cell without a value.
\* ======================================================================

MaxPeriod == 2

\* Series.astype(float) of a series of integers.
AsFloat(series) == [k \in 1..Len(series) |-> Rat(series[k], 1)]

\* Series.ewm(alpha, adjust=False, min_periods).mean() at position k, for a
\* series whose NaN cells all come first: the first value starts the average,
\* every later one enters with weight alpha.
RECURSIVE EwmAt(_, _, _)
EwmAt(xs, alpha, k) ==
    IF xs[k] = NaN THEN NaN
    ELSE IF k = 1 \/ xs[k - 1] = NaN THEN xs[k]
    ELSE RAdd(RMul(alpha, xs[k]), RMul(RSub(One, alpha), EwmAt(xs, alpha, k - 1)))

\* The cells that have seen fewer than min_periods values are NaN.
Ewm(xs, alpha, min_periods) ==
    [k \in 1..Len(xs) |->
        IF Cardinality({j \in 1..k : xs[j] # NaN}) < min_periods
        THEN NaN
        ELSE EwmAt(xs, alpha, k)]

\* a - b, cell by cell.
SeriesSub(a, b) ==
    [k \in 1..Len(a) |-> IF a[k] = NaN \/ b[k] = NaN THEN NaN ELSE RSub(a[k], b[k])]

\* ema with the bias correction of adjust=True: the weighted mean of the values
\* seen so far, with weights (1 - alpha)^age.
RECURSIVE RPow(_, _)
RPow(r, n) == IF n = 0 THEN One ELSE RMul(r, RPow(r, n - 1))

EmaAdjusted(series, period) ==
    IF period <= 0
    THEN Raises("period must be positive")
    ELSE LET decay == RSub(One, Rat(2, period + 1))
             xs == AsFloat(series)
         IN Returns([k \in 1..Len(series) |->
                RDiv(SeqSum([j \in 1..k |-> RMul(RPow(decay, k - j), xs[j])]),
                     SeqSum([j \in 1..k |-> RPow(decay, k - j)]))])

\* ema with a period of 0 or less clamped to 1.
EmaClamped(series, period) ==
    Returns(Ewm(AsFloat(series), Rat(2, (IF period <= 0 THEN 1 ELSE period) + 1), 0))

\* Lines 9-13: span = period, so alpha = 2 / (period + 1).
ema(series, period) ==
    IF period <= 0
    THEN Raises("period must be positive")
    ELSE Returns(Ewm(AsFloat(series), Rat(2, period + 1), 0))

\* macd without line 22.
MacdAnyOrder(close, fast, slow, signal_period) ==
    IF fast <= 0 \/ slow <= 0 \/ signal_period <= 0
    THEN Raises("MACD periods must be positive")
    ELSE LET ema_fast == Get(ema(close, fast).value)
             ema_slow == Get(ema(close, slow).value)
             macd_line == SeriesSub(ema_fast, ema_slow)
             macd_signal == Ewm(macd_line, Rat(2, signal_period + 1), 0)
         IN Returns([macd_line |-> macd_line, macd_signal |-> macd_signal,
                     macd_hist |-> SeriesSub(macd_line, macd_signal)])

\* Lines 16-38.
macd(close, fast, slow, signal_period) ==
    IF fast <= 0 \/ slow <= 0 \/ signal_period <= 0
    THEN Raises("MACD periods must be positive")
    ELSE IF fast >= slow
    THEN Raises("fast must be less than slow")
    ELSE LET ema_fast == Get(ema(close, fast).value)
             ema_slow == Get(ema(close, slow).value)
             macd_line == SeriesSub(ema_fast, ema_slow)
             macd_signal == Ewm(macd_line, Rat(2, signal_period + 1), 0)
         IN Returns([macd_line |-> macd_line, macd_signal |-> macd_signal,
                     macd_hist |-> SeriesSub(macd_line, macd_signal)])

\* Line 47: Series.diff().
Diff(xs) == [k \in 1..Len(xs) |-> IF k = 1 THEN NaN ELSE RSub(xs[k], xs[k - 1])]

\* Lines 48-49: delta.clip(lower=0.0) and -delta.clip(upper=0.0).
Gain(delta) == [k \in 1..Len(delta) |-> IF delta[k] = NaN THEN NaN ELSE RMax(delta[k], Zero)]
Loss(delta) ==
    [k \in 1..Len(delta) |->
        IF delta[k] = NaN THEN NaN ELSE RSub(Zero, RMin(delta[k], Zero))]

Hundred == Rat(100, 1)

\* RsiCell without line 56: a zero loss leaves the cell without a value.
RsiCellZeroLossNaN(avg_gain, avg_loss) ==
    IF avg_gain = NaN \/ avg_loss = NaN \/ avg_loss = Zero THEN NaN
    ELSE LET rs == RDiv(avg_gain, avg_loss)
             cell == RSub(Hundred, RDiv(Hundred, RAdd(One, rs)))
         IN RMax(Zero, RMin(cell, Hundred))

\* Lines 54-57 at one cell: rs = avg_gain / avg_loss with a zero loss replaced
\* by NaN, 100 where the loss is 0, and the clip to [0, 100].
RsiCell(avg_gain, avg_loss) ==
    IF avg_loss = Zero THEN Hundred
    ELSE IF avg_gain = NaN \/ avg_loss = NaN THEN NaN
    ELSE LET rs == RDiv(avg_gain, avg_loss)
             cell == RSub(Hundred, RDiv(Hundred, RAdd(One, rs)))
         IN RMax(Zero, RMin(cell, Hundred))

\* Lines 41-57.
rsi(series, period) ==
    IF period <= 0
    THEN Raises("period must be positive")
    ELSE LET delta == Diff(AsFloat(series))
             avg_gain == Ewm(Gain(delta), Rat(1, period), period)
             avg_loss == Ewm(Loss(delta), Rat(1, period), period)
         IN Returns([k \in 1..Len(series) |-> RsiCell(avg_gain[k], avg_loss[k])])

\* Lines 60-64: rolling(window, min_periods=window).mean().
volume_ma(volume, w) ==
    IF w <= 0
    THEN Raises("window must be positive")
    ELSE Returns([k \in 1..Len(volume) |->
                    IF k < w THEN NaN
                    ELSE Mean(SubSeq(AsFloat(volume), k - w + 1, k))])

\* The series and the integer arguments of the calls.
NumberSeries == UNION {[1..n -> Prices] : n \in 0..MaxCandles}
Periods == -1..MaxPeriod

\* The calls of the tests: ema on 1..5 with period 3, rsi on 1..9 with period 6.
TestEma == [series |-> <<1, 2, 3, 4, 5>>, period |-> 3]
TestRsi == [series |-> <<1, 2, 3, 4, 5, 6, 7, 8, 9>>, period |-> 6]

\* A call of one of the four functions, on a small series or as in the tests.
InitIndicators ==
    /\ \/ /\ ind_fn \in {"ema", "macd", "rsi", "volume_ma"}
          /\ ind_series \in NumberSeries
          /\ ind_params \in IF ind_fn = "macd"
                            THEN [1..3 -> Periods]
                            ELSE [1..1 -> Periods]
       \/ /\ ind_fn = "ema"
          /\ ind_series = TestEma.series
          /\ ind_params = <<TestEma.period>>
       \/ /\ ind_fn = "rsi"
          /\ ind_series = TestRsi.series
          /\ ind_params = <<TestRsi.period>>
    /\ ind_result = None
    /\ ind_raised = ""
    /\ ind_pc = "called"
    /\ BacktestNotCalled
    /\ LevelsNotCalled
    /\ SignalNotCalled
    /\ WorkerNotCalled
    /\ StoreNotCalled
    /\ ServiceNotCalled
    /\ NormalizeNotCalled
    /\ MetricsNotCalled

\* The call ends with what the function returned or raised.
IndicatorEnds(call) ==
    /\ ind_result' = call.value
    /\ ind_raised' = call.raised
    /\ ind_pc' = IF call.raised = "" THEN "returned" ELSE "raised"
    /\ UNCHANGED <<ind_fn, ind_series, ind_params, outside_indicators>>

Ema ==
    /\ ind_pc = "called"
    /\ ind_fn = "ema"
    /\ IndicatorEnds(ema(ind_series, ind_params[1]))

Macd ==
    /\ ind_pc = "called"
    /\ ind_fn = "macd"
    /\ IndicatorEnds(macd(ind_series, ind_params[1], ind_params[2], ind_params[3]))

Rsi ==
    /\ ind_pc = "called"
    /\ ind_fn = "rsi"
    /\ IndicatorEnds(rsi(ind_series, ind_params[1]))

VolumeMa ==
    /\ ind_pc = "called"
    /\ ind_fn = "volume_ma"
    /\ IndicatorEnds(volume_ma(ind_series, ind_params[1]))

NextIndicators ==
    \/ Ema
    \/ Macd
    \/ Rsi
    \/ VolumeMa

SpecIndicators == InitIndicators /\ [][NextIndicators]_vars

\* A call of any function that takes a period or a window: the four
\* indicators, or add_levels with its call of detect_pivots.
InitParameters ==
    \/ InitIndicators
    \/ InitLevels

NextParameters ==
    \/ NextIndicators
    \/ NextLevels

SpecParameters == InitParameters /\ [][NextParameters]_vars

\* ---- C30 ----
\* The arguments of the indicator call are invalid.
C30_InvalidCall ==
    \/ ind_fn \in {"ema", "rsi", "volume_ma"} /\ ind_params[1] <= 0
    \/ /\ ind_fn = "macd"
       /\ \/ \E k \in 1..3 : ind_params[k] <= 0
          \/ ind_params[1] >= ind_params[2]

\* C30: a call with an invalid parameter ends with an error and returns no
\* series: ema and rsi with period <= 0, macd with a period <= 0 or with
\* fast >= slow, volume_ma with window <= 0, and add_levels with its
\* detect_pivots with window <= 0, which computes no pivot and no level.
C30_InvalidParametersRejected ==
    /\ (ind_pc \in {"returned", "raised"} /\ C30_InvalidCall)
          => /\ ind_pc = "raised"
             /\ ind_raised # ""
             /\ ind_result = None
    /\ (levels_pc \in {"loop", "done", "raised"} /\ window <= 0)
          => /\ levels_pc = "raised"
             /\ levels_raised # ""
             /\ out = <<>>
             /\ nearest_resistance = <<>>
             /\ nearest_support = <<>>

\* macd has been called on a series of three closes with fast = slow = 2 and
\* signal = 1, all positive, and has raised.
C30_Witness ==
    /\ ind_fn = "macd"
    /\ Len(ind_series) = 3
    /\ ind_params = <<2, 2, 1>>
    /\ ind_pc = "raised"
    /\ ind_raised = "fast must be less than slow"
    /\ ind_result = None

\* ---- C31 ----
\* The result of the ema call under way.
C31_Out == Get(ind_result)

\* C31: a call of ema with period p > 0 returns the series of the recursion
\* out[0] = x[0], out[i] = a * x[i] + (1 - a) * out[i-1] with a = 2 / (p + 1),
\* at every index.
C31_Recursion ==
    (ind_fn = "ema" /\ ind_pc # "called" /\ ind_params[1] > 0)
       => /\ ind_pc = "returned"
          /\ ind_result # None
          /\ Len(C31_Out) = Len(ind_series)
          /\ \A k \in 1..Len(ind_series) :
                LET a == Rat(2, ind_params[1] + 1)
                    x == Rat(ind_series[k], 1)
                IN C31_Out[k] = IF k = 1
                                THEN x
                                ELSE RAdd(RMul(a, x), RMul(RSub(One, a), C31_Out[k - 1]))

\* C31: ema([1, 2, 3, 4, 5], 3) = [1, 1.5, 2.25, 3.125, 4.0625].
C31_KnownValues ==
    (ind_fn = "ema" /\ ind_pc # "called" /\ ind_series = <<1, 2, 3, 4, 5>>
        /\ ind_params = <<3>>)
       => ind_result = Some(<<Rat(1, 1), Rat(3, 2), Rat(9, 4), Rat(25, 8), Rat(65, 16)>>)

\* C31: both, the recursion at every index and the known values.
C31_EmaIsTheRecursion ==
    /\ C31_Recursion
    /\ C31_KnownValues

\* ema has returned on the series 1..5 with period 3, and its last value is
\* 4.0625.
C31_Witness ==
    /\ ind_fn = "ema"
    /\ ind_pc = "returned"
    /\ ind_series = <<1, 2, 3, 4, 5>>
    /\ ind_params = <<3>>
    /\ ind_result # None
    /\ Get(ind_result)[5] = Rat(65, 16)

\* ---- C32 ----
\* The smoothed average loss of the rsi call under way.
C32_AvgLoss ==
    Ewm(Loss(Diff(AsFloat(ind_series))), Rat(1, ind_params[1]), ind_params[1])

\* C32: every defined value of rsi lies in [0, 100], and a cell past the
\* warm-up whose smoothed average loss is 0 holds exactly 100, on a flat
\* series too.
C32_RsiBounded ==
    (ind_fn = "rsi" /\ ind_pc = "returned")
       => \A k \in 1..Len(ind_series) :
             /\ Get(ind_result)[k] # NaN
                   => /\ RLe(Zero, Get(ind_result)[k])
                      /\ RLe(Get(ind_result)[k], Hundred)
             /\ (k > ind_params[1] /\ C32_AvgLoss[k] = Zero)
                   => Get(ind_result)[k] = Hundred

\* rsi has returned on a flat series, whose last cell is past the warm-up and
\* holds 100.
C32_Witness ==
    /\ ind_fn = "rsi"
    /\ ind_pc = "returned"
    /\ ind_series = <<2, 2, 2>>
    /\ ind_params = <<2>>
    /\ Get(ind_result)[2] = NaN
    /\ Get(ind_result)[3] = Hundred


\* ======================================================================
\* More properties of simulate_trades.
\* ======================================================================

\* The frame's timestamps are strictly increasing.
Chronological == frame.index = Ascending(Len(frame.index))

\* ---- C33 ----
\* Every closed trade was signalled before it was entered, and entered no
\* later than it was closed.
C33_TimesInOrder ==
    Chronological
       => \A k \in 1..Len(trades) :
             /\ trades[k].signal_time < trades[k].entry_time
             /\ trades[k].entry_time <= trades[k].exit_time

\* The exit check runs on the entry candle: a trade entered on the current row
\* whose stop or target the row reaches is closed on that row.
C33_CheckedOnEntryCandle ==
    (ExitChecked /\ Checked.entry_time = ts)
       => IF StopTriggered(Checked) \/ TargetTriggered(Checked)
          THEN /\ open_trade = None
               /\ trades[Len(trades)].entry_time = ts
               /\ trades[Len(trades)].exit_time = ts
               /\ trades[Len(trades)].exit_reason # "end_of_data"
          ELSE open_trade # None

\* A trade entered on the last candle that is still open after the loop is
\* closed on that candle with end_of_data.
C33_ClosedOnLastCandle ==
    (pc = "after_loop" /\ open_trade # None
        /\ Get(open_trade).entry_time = TimeAt(Len(data)))
       => /\ Len(trades') = Len(trades) + 1
          /\ trades'[Len(trades')].entry_time = TimeAt(Len(data))
          /\ trades'[Len(trades')].exit_time = TimeAt(Len(data))
          /\ trades'[Len(trades')].exit_reason = "end_of_data"

\* C33: on strictly increasing timestamps every closed trade has signal_time <
\* entry_time <= exit_time; the stop/target check is applied already on the
\* entry candle, so a trade can open and close on one candle; and a trade
\* promoted on the last candle that hits neither level is closed there with
\* end_of_data.
C33_EntryCandleIsChecked ==
    /\ []C33_TimesInOrder
    /\ []C33_CheckedOnEntryCandle
    /\ [][C33_ClosedOnLastCandle]_vars

\* A run has returned two trades: one entered and closed by a level on the
\* second candle, one entered on the last candle and closed there at the end
\* of the data.
C33_Witness ==
    /\ pc = "done"
    /\ Chronological
    /\ Len(trades) = 2
    /\ trades[1].entry_time = 2
    /\ trades[1].exit_time = 2
    /\ trades[1].exit_reason \in {"stop_loss", "target", "stop_and_target_same_candle"}
    /\ trades[2].signal_time = 2
    /\ trades[2].entry_time = 3
    /\ trades[2].exit_time = 3
    /\ trades[2].exit_reason = "end_of_data"

\* ---- C34 ----
\* Trades are listed in time order and do not overlap: a trade is signalled no
\* earlier, and entered later, than the trade before it was closed.
C34_NoOverlap ==
    Chronological
       => \A k \in 1..(Len(trades) - 1) :
             /\ trades[k].exit_time <= trades[k + 1].signal_time
             /\ trades[k].exit_time < trades[k + 1].entry_time

C35_ClosedOnThisRow == ExitChecked /\ open_trade = None

\* On such a row every valid order the row can carry is taken.
C35_OrderIsTaken ==
    C35_ClosedOnThisRow
       => /\ trades[Len(trades)].exit_time = ts
          /\ trades[Len(trades)].exit_reason # "end_of_data"
          /\ \A sig \in RowSignals : Accepted(sig) => ENABLED AcceptSignal(sig)

\* The order taken on such a row carries the row's time as signal_time.
C35_SignalTimeIsExitCandle ==
    (C35_ClosedOnThisRow /\ pending_order' # None)
       => /\ Get(pending_order').signal_time = ts
          /\ Get(pending_order').signal_time = trades[Len(trades)].exit_time
          /\ Accepted([action |-> Get(pending_order').side,
                       entry |-> Some(Get(pending_order').entry),
                       stop_loss |-> Some(Get(pending_order').stop_loss),
                       target |-> Some(Get(pending_order').target)])

\* The pending order is entered on the next candle.
C35_EnteredOnNextCandle ==
    (pc = "promote" /\ pending_order # None)
       => /\ i > 1
          /\ Get(pending_order).signal_time = TimeAt(i - 1)
          /\ open_trade' # None
          /\ Get(open_trade').signal_time = TimeAt(i - 1)
          /\ Get(open_trade').entry_time = TimeAt(i)

\* On a row on which the trade stays open no order is taken.
C35_IgnoredWhileOpen ==
    (pc = "signal" /\ open_trade # None)
       => /\ \A sig \in RowSignals : ~ENABLED AcceptSignal(sig)
          /\ ExitChecked

\* C35: when an open trade closes on a candle by stop or target and the same
\* row carries a valid long/short order, a pending order with signal_time =
\* that candle is created and entered on the next candle; only the signals of
\* the candles on which the trade stays open are ignored.
C35_SignalOnExitCandleKept ==
    /\ []C35_OrderIsTaken
    /\ [][C35_SignalTimeIsExitCandle]_vars
    /\ [][C35_EnteredOnNextCandle]_vars
    /\ []C35_IgnoredWhileOpen

\* A trade has been entered whose order was signalled on the candle on which
\* the trade before it was closed by a level.
C35_Witness ==
    /\ pc = "exit"
    /\ open_trade # None
    /\ trades # <<>>
    /\ trades[Len(trades)].exit_reason \in {"stop_loss", "target"}
    /\ Get(open_trade).signal_time = trades[Len(trades)].exit_time
    /\ Get(open_trade).entry_time = ts
    /\ ts = TimeAt(i - 1) + 1

\* ---- C36 ----
\* A time of the evaluation window.
C36_InEvalWindow(t) == eval_start <= t /\ t <= eval_end

\* Only rows of the window are walked, and every time of a trade is a time of
\* the window.
C36_OnlyRowsOfTheWindow ==
    /\ \A k \in 1..Len(data) : C36_InEvalWindow(frame.index[data[k]])
    /\ \A k \in 1..Len(trades) :
          /\ C36_InEvalWindow(trades[k].signal_time)
          /\ C36_InEvalWindow(trades[k].entry_time)
          /\ C36_InEvalWindow(trades[k].exit_time)
    /\ open_trade # None
          => /\ C36_InEvalWindow(Get(open_trade).signal_time)
             /\ C36_InEvalWindow(Get(open_trade).entry_time)
    /\ pending_order # None => C36_InEvalWindow(Get(pending_order).signal_time)

\* An order still pending after the last candle of the window is dropped: the
\* call returns the trades it had, none of them signalled on the last candle.
C36_PendingOrderDropped ==
    (pc = "after_loop" /\ pending_order # None)
       => /\ Get(pending_order).signal_time = TimeAt(Len(data))
          /\ open_trade = None
          /\ pc' = "done"
          /\ result' = Some([trades |-> trades, metrics |-> compute_metrics(trades)])
          /\ \A k \in 1..Len(trades) : trades[k].signal_time # TimeAt(Len(data))

\* C36: a pending order that has not been promoted when the window ends gives
\* no trade, and only rows with eval_start <= timestamp <= eval_end take part:
\* every signal_time, entry_time and exit_time of the result lies in the
\* window, so a signal on a row before eval_start is never entered inside it.
C36_WindowBoundsTheRun ==
    /\ []C36_OnlyRowsOfTheWindow
    /\ [][C36_PendingOrderDropped]_vars

\* The window holds the second of three candles only; its signal is a pending
\* order after the loop, and the third candle is never walked.
C36_Witness ==
    /\ pc = "after_loop"
    /\ Len(frame.index) = 3
    /\ eval_start = 2
    /\ eval_end = 2
    /\ data = <<2>>
    /\ pending_order # None
    /\ Get(pending_order).signal_time = 2
    /\ trades = <<>>

\* ---- C37 ----
\* C37: with fee_rate = 0 (entry prices are positive) a trade closed at its
\* target is a win and a trade closed at its stop, alone or on a candle that
\* also reaches the target, is a loss; a flat trade, and a trade whose outcome
\* goes against its reason, is an end_of_data trade.
C37_ReasonDeterminesOutcome ==
    fee_rate = Zero
       => \A k \in 1..Len(trades) :
             /\ trades[k].entry > 0
             /\ trades[k].exit_reason = "target"
                   => trades[k].outcome = "win" /\ RLt(Zero, trades[k].pnl)
             /\ trades[k].exit_reason \in {"stop_loss", "stop_and_target_same_candle"}
                   => trades[k].outcome = "loss" /\ RLt(trades[k].pnl, Zero)
             /\ trades[k].outcome = "flat" => trades[k].exit_reason = "end_of_data"

\* A run with fee_rate 0 has returned a short trade closed at its target, a
\* win, and a trade closed flat at the end of the data.
C37_Witness ==
    /\ pc = "done"
    /\ fee_rate = Zero
    /\ Len(trades) = 2
    /\ trades[1].side = "short"
    /\ trades[1].exit_reason = "target"
    /\ trades[1].outcome = "win"
    /\ trades[2].exit_reason = "end_of_data"
    /\ trades[2].outcome = "flat"


\* ======================================================================
\* The signal of signal_from_row as a row of the simulator's frame
\* (build_signal_frame, signals.py line 103, then backtest.py 274-291).
\* ======================================================================

\* backtest.py lines 122-127 on the float cells of a signal.
ValidOrderOfFloats(action, entry, stop, target) ==
    IF action = "long" THEN RLt(stop, entry) /\ RLt(entry, target)
    ELSE IF action = "short" THEN RLt(target, entry) /\ RLt(entry, stop)
    ELSE FALSE

\* backtest.py lines 280-284 on a row that holds the signal: a None cell is
\* not notna.
AcceptedOfFloats(sig) ==
    /\ sig.action \in {"long", "short"}
    /\ notna(sig.entry) /\ notna(sig.stop_loss) /\ notna(sig.target)
    /\ ValidOrderOfFloats(sig.action, Get(sig.entry), Get(sig.stop_loss), Get(sig.target))

\* ---- C38 ----
\* C38: the signal returned for a row has an rr_ratio if and only if the
\* simulator, idle on that row, takes it as a pending order (action long or
\* short, entry, stop_loss and target present and correctly ordered), and an
\* rr_ratio that is present is strictly positive.
C38_RatioIffTradable ==
    signal_pc = "returned"
       => /\ Get(signal).rr_ratio # None <=> AcceptedOfFloats(Get(signal))
          /\ Get(signal).rr_ratio # None => RLt(Zero, Get(Get(signal).rr_ratio))

\* The long row of the tests has given a signal with entry 101, stop 98.5 and
\* target 108, which the simulator takes, and an rr_ratio of 2.8.
C38_Witness ==
    /\ signal_pc = "returned"
    /\ signal_row = TestLongRow
    /\ Get(signal).action = "long"
    /\ AcceptedOfFloats(Get(signal))
    /\ Get(signal).rr_ratio = Some(Rat(14, 5))


\* ======================================================================
\* The worker on a store whose reads and writes succeed: the cycles of
\* SpecWorker without the faults of the store.
\* ======================================================================

InitReliable ==
    /\ InitWorker
    /\ store_up

NextReliable ==
    \/ RunOnce
    \/ Fetch
    \/ Compute
    \/ Persist
    \/ ReadPrevious
    \/ Republish

SpecReliable == InitReliable /\ [][NextReliable]_vars

\* ---- C39 ----
\* The latest finished cycle and the latest successful one.
C39_LastCycle == Get(cycle_history.cycle)
C39_LastSuccess == Get(cycle_history.success)

\* C39: after any sequence of successful and failing cycles on a store whose
\* reads and writes succeed, the stored snapshot has stale = false and
\* last_fetch_status = ok if and only if the most recent cycle succeeded (and
\* stale = true and failed if it did not), its timestamp is the time of the
\* most recent cycle, and its last_success_at, signal and candle_time are those
\* of the most recent successful cycle.
C39_StoredSnapshotTracksCycles ==
    store # None
       => /\ cycle_history.cycle # None
          /\ cycle_history.success # None
          /\ (Get(store).stale = Some(FALSE) /\ Get(store).last_fetch_status = Some("ok"))
                <=> C39_LastCycle.ok
          /\ ~C39_LastCycle.ok
                => /\ Get(store).stale = Some(TRUE)
                   /\ Get(store).last_fetch_status = Some("failed")
          /\ Get(store).timestamp = Some(C39_LastCycle.time)
          /\ Get(store).last_success_at = Some(C39_LastSuccess.time)
          /\ Get(store).signal = C39_LastSuccess.signal
          /\ Get(store).candle_time = C39_LastSuccess.candle_time

\* Two failing cycles, at times 3 and 4, have followed the successful cycle of
\* time 2, and the store holds the signal of time 2 with the timestamp 4.
C39_Witness ==
    /\ worker_pc = "returned"
    /\ store # None
    /\ cycle_history.cycle = Some([time |-> 4, ok |-> FALSE])
    /\ cycle_history.success # None
    /\ C39_LastSuccess.time = 2
    /\ Get(store).timestamp = Some(4)
    /\ Get(store).last_success_at = Some(2)
    /\ Get(store).stale = Some(TRUE)


\* ---------------------------------------------------------------------------
\* compute_metrics on trade lists of its own
\* ---------------------------------------------------------------------------
MaxTrades == 3

\* The pnls of the lists: losses short of, at and beyond the whole stake, a flat
\* trade and wins.
MetricPnls == {Rat(-3, 2), Rat(-1, 1), Rat(-1, 2), Rat(-1, 4), Zero, Rat(1, 4), Rat(1, 2)}

TradeLists == UNION {[1..n -> [pnl : MetricPnls]] : n \in 0..MaxTrades}

InitMetrics ==
    /\ metrics_trades \in TradeLists
    /\ metrics_result = None
    /\ metrics_pc = "called"
    /\ BacktestNotCalled
    /\ LevelsNotCalled
    /\ SignalNotCalled
    /\ WorkerNotCalled
    /\ StoreNotCalled
    /\ ServiceNotCalled
    /\ NormalizeNotCalled
    /\ IndicatorsNotCalled

\* The call compute_metrics(trades) returns.
ComputeMetrics ==
    /\ metrics_pc = "called"
    /\ metrics_result' = Some(compute_metrics(metrics_trades))
    /\ metrics_pc' = "returned"
    /\ UNCHANGED <<metrics_trades, outside_metrics>>

NextMetrics == ComputeMetrics

SpecMetrics == InitMetrics /\ [][NextMetrics]_vars

\* Every pnl of the list is greater than -1.
C40_NoTotalLoss ==
    \A k \in 1..Len(metrics_trades) : RLt(Rat(-1, 1), metrics_trades[k].pnl)

\* No trade after the first one is a loss.
C40_OnlyFirstMayLose ==
    \A k \in 2..Len(metrics_trades) : ~IsLoss(metrics_trades[k].pnl)

\* C40: for a non-empty trade list with every pnl above -1, max_drawdown is a
\* number that is at most 0; it is 0 for a list of one trade, a losing one
\* included, and for any list in which only the first trade loses: the
\* starting equity of 1 is not a peak, so the first loss adds no drawdown.
C40_FirstLossIsNoDrawdown ==
    (metrics_pc = "returned" /\ metrics_trades # <<>> /\ C40_NoTotalLoss) =>
        LET dd == Get(metrics_result).max_drawdown
        IN /\ dd \notin {NaN, NegInf}
           /\ RLe(dd, Zero)
           /\ Len(metrics_trades) = 1 => dd = Zero
           /\ C40_OnlyFirstMayLose => dd = Zero

\* A single losing trade was measured, and its max_drawdown is 0.
C40_Witness ==
    /\ metrics_pc = "returned"
    /\ metrics_trades = <<[pnl |-> Rat(-1, 2)]>>
    /\ Get(metrics_result).max_drawdown = Zero

====
